---------------------------- MODULE Spec2Model ----------------------------
(***************************************************************************)
(* A model of the BEMT rotor-performance core of airfoil_calcurator:       *)
(*   bemt_solver/geometry.py   Propeller                                   *)
(*   bemt_solver/duct.py       calculate_wake_contraction                  *)
(*   bemt_solver/losses.py     prandtl_tip_loss, prandtl_hub_loss          *)
(*   bemt_solver/core.py       solve_bemt                                  *)
(*   airfoil_database_airfoiltools.py   the interpolated airfoil table     *)
(*                                                                         *)
(* Numbers.  The program computes in binary floating point; the model      *)
(* computes on decimal fixed-point grids (integers counting a stated       *)
(* unit), with every division rounded down.  Rounding and overflow of the  *)
(* floating-point format are not modelled.  Lengths count 1e-4 m, ratios   *)
(* of the duct model count 1e-4, loss factors count 1e-6.                  *)
(*                                                                         *)
(* Geometries.  Every geometry of the model satisfies the RotorGeometry    *)
(* invariant tip_radius > hub_radius >= 0 and num_blades >= 1 unless a     *)
(* definition says otherwise; a zero diameter or a zero element radius is  *)
(* not an input of the model.                                              *)
(***************************************************************************)
EXTENDS Integers, Sequences, FiniteSets, TLC

VARIABLES
    duct_calls,     \* the last two calls of calculate_wake_contraction: <<[prop, ret]>>
    loss_calls,     \* the last call of prandtl_tip_loss / prandtl_hub_loss
    csv_files,      \* the files glob.glob finds in CSV_DIR, in the order it lists them
    _airfoil_interpolators, \* the module's dict, in insertion order
    _loaded,        \* the module's flag
    load_calls,     \* how many times _load_airfoil_data went past its first return
    table_call,     \* the last call of the table's public functions
    bemt_pc,        \* where the call of solve_bemt is: idle, search, finalize, aggregate, done
    bemt_args,      \* the arguments of the call
    bemt_locals,    \* omega, fan_thrust_fraction, r_centers, dr and the two running totals
    bemt_search,    \* the element at hand, fsolve's evaluations, the state it solved
    bemt_elements,  \* the elements finalized so far: how the search ended, dT, dQ
    bemt_result,    \* the tuple solve_bemt returned, or the exception it raised
    thrust_h_baseline, \* the hover call without a duct that the call at hand is compared with
    geom_call,      \* the last construction of a Propeller: the arrays and what came of it
    callers,        \* the threads inside a table operation: where each one is, what it got
    element_call,   \* the last evaluation of residuals(x) or of the finalize step of an element
    study           \* the optimizer's study: its trials, the best value, the report of the run

ductVars == <<duct_calls>>
lossVars == <<loss_calls>>
tableVars == <<csv_files, _airfoil_interpolators, _loaded, load_calls, table_call>>
bemtVars ==
    <<bemt_pc, bemt_args, bemt_locals, bemt_search, bemt_elements, bemt_result, thrust_h_baseline>>
geomVars == <<geom_call>>
callerVars == <<callers>>
elementVars == <<element_call>>
studyVars == <<study>>
vars ==
    <<ductVars, lossVars, tableVars, bemtVars, geomVars, callerVars, elementVars, studyVars>>

-----------------------------------------------------------------------------
(* Helpers shared by the components.                                        *)

Min(a, b) == IF a <= b THEN a ELSE b
Max(a, b) == IF a >= b THEN a ELSE b

\* np.clip(x, lo, hi)
Clip(x, lo, hi) == Min(Max(x, lo), hi)

\* The element of a one-element set.  The({e(x) : x \in {v}}) is e with the
\* local variable x assigned v once.
The(S) == CHOOSE out \in S : TRUE

\* np.interp(x, xp, fp, right=right) for increasing xp: fp[1] left of the
\* table, `right` right of it, linear between the two bracketing nodes.
Interp(x, xp, fp, right) ==
    IF x < xp[1] THEN fp[1]
    ELSE IF x > xp[Len(xp)] THEN right
    ELSE IF x = xp[Len(xp)] THEN fp[Len(fp)]
    ELSE LET j == CHOOSE i \in 1..(Len(xp) - 1) : xp[i] <= x /\ x < xp[i + 1]
         IN  fp[j] + ((fp[j + 1] - fp[j]) * (x - xp[j])) \div (xp[j + 1] - xp[j])

-----------------------------------------------------------------------------
(* bemt_solver/geometry.py                                                  *)

\* A slip that checks the lengths of the shape arrays only.
PropellerShapeChecked(hub_radius, tip_radius, num_blades, r_coords, pitch_coords_deg, chord_coords, r_coords_airfoil_def, airfoil_names, duct_length, duct_lip_radius) ==
    IF ~(Len(r_coords) = Len(pitch_coords_deg) /\ Len(pitch_coords_deg) = Len(chord_coords))
    THEN [raised |-> "ValueError"]
    ELSE [raised |-> "none",
          hub_radius |-> hub_radius,
          tip_radius |-> tip_radius,
          num_blades |-> num_blades,
          diameter |-> tip_radius * 2,
          duct_length |-> duct_length,
          duct_lip_radius |-> duct_lip_radius,
          r_coords_geom |-> r_coords,
          pitch_coords_deg |-> pitch_coords_deg,
          chord_coords |-> chord_coords,
          r_coords_airfoil |-> r_coords_airfoil_def,
          airfoil_names |-> airfoil_names]

\* Propeller.__init__: the two length checks, then the attributes.  The
\* result is a record; raised = "ValueError" stands for the raise.
Propeller(hub_radius, tip_radius, num_blades, r_coords, pitch_coords_deg, chord_coords, r_coords_airfoil_def, airfoil_names, duct_length, duct_lip_radius) ==
    IF ~(Len(r_coords) = Len(pitch_coords_deg) /\ Len(pitch_coords_deg) = Len(chord_coords))
    THEN [raised |-> "ValueError"]
    ELSE IF ~(Len(r_coords_airfoil_def) = Len(airfoil_names))
    THEN [raised |-> "ValueError"]
    ELSE [raised |-> "none",
          hub_radius |-> hub_radius,
          tip_radius |-> tip_radius,
          num_blades |-> num_blades,
          diameter |-> tip_radius * 2,
          duct_length |-> duct_length,
          duct_lip_radius |-> duct_lip_radius,
          r_coords_geom |-> r_coords,
          pitch_coords_deg |-> pitch_coords_deg,
          chord_coords |-> chord_coords,
          r_coords_airfoil |-> r_coords_airfoil_def,
          airfoil_names |-> airfoil_names]

\* No Propeller has been constructed.
GeometryIdle == geom_call = [fn |-> "none"]

-----------------------------------------------------------------------------
(* bemt_solver/duct.py                                                      *)

\* One on the ratio grid of the duct model (ratios count 1e-4).
RatioOne == 10 ^ 4

\* The digitised curves of duct.py: d/L, and the wake-diameter ratio
\* without and with a lip.
dl_ratio_data == <<0, 1000, 2000, 3000, 4000, 5000, 6000, 8000, 10000>>
wake_diam_ratio_no_lip == <<7100, 7600, 8400, 9000, 9300, 9450, 9550, 9700, 9750>>
wake_diam_ratio_with_lip == <<7200, 8300, 8900, 9200, 9400, 9550, 9650, 9750, 9800>>

\* The reference lip ratio R/D = 0.031.
RefLipRatio == (31 * RatioOne) \div 1000

\* lip_effect_factor = np.clip(current_lip_ratio / 0.031, 0, 1)
LipEffectFactor(prop) ==
    LET current_lip_ratio == (prop.duct_lip_radius * RatioOne) \div prop.diameter
    IN  Clip((current_lip_ratio * RatioOne) \div RefLipRatio, 0, RatioOne)

\* The blend of the two curves at the geometry's d/L.
WakeDiamRatio(prop) ==
    LET d_over_l == (prop.diameter * RatioOne) \div prop.duct_length
        interp_no_lip == Interp(d_over_l, dl_ratio_data, wake_diam_ratio_no_lip, RatioOne)
        interp_with_lip == Interp(d_over_l, dl_ratio_data, wake_diam_ratio_with_lip, RatioOne)
        f == LipEffectFactor(prop)
    IN  ((RatioOne - f) * interp_no_lip + f * interp_with_lip) \div RatioOne

\* The final np.clip(k_squared, 1.0, 2.0).
ClipKSquared(k_squared) == Clip(k_squared, RatioOne, 2 * RatioOne)

\* k = 1.0 / wake_diam_ratio; k_squared = k**2
KSquared(wake_diam_ratio) ==
    LET k == (RatioOne * RatioOne) \div wake_diam_ratio
    IN  (k * k) \div RatioOne

\* A slip that returns the fan thrust fraction 0.5 * k^2 in place of k^2.
calculate_wake_contraction_fraction(prop) ==
    IF prop.duct_length <= 0
    THEN RatioOne
    ELSE ClipKSquared(KSquared(WakeDiamRatio(prop))) \div 2

\* A slip that takes the early return for a zero length only.
calculate_wake_contraction_eq0(prop) ==
    IF prop.duct_length = 0
    THEN 2 * RatioOne
    ELSE ClipKSquared(KSquared(WakeDiamRatio(prop)))

\* calculate_wake_contraction(prop)
calculate_wake_contraction(prop) ==
    IF prop.duct_length <= 0
    THEN 2 * RatioOne
    ELSE ClipKSquared(KSquared(WakeDiamRatio(prop)))

-----------------------------------------------------------------------------
(* bemt_solver/losses.py                                                    *)
(*                                                                          *)
(* Loss factors and sines count 1e-6, the argument of arccos counts 1e-4,   *)
(* exponents count 1e-2, angles count 1e-6 rad.  An exponent of magnitude   *)
(* ExpInf stands for a floating-point infinity: numpy divides by a zero     *)
(* without raising, and the quotient keeps the sign of the operands.        *)

LossOne == 10 ^ 6
ArgOne == 10 ^ 4
ExpInf == 2 * 10 ^ 9

\* The threshold 1e-6 on abs(sin_phi), and the floor 1e-6 of the factor.
SinEps == 1
LossFloor == 1

Abs(x) == IF x < 0 THEN 0 - x ELSE x
Sign(x) == IF x < 0 THEN 0 - 1 ELSE IF x > 0 THEN 1 ELSE 0

\* Division rounded down, for a divisor of either sign.
FloorDiv(a, b) == IF b > 0 THEN a \div b ELSE (0 - a) \div (0 - b)

\* The inflow angles of the model and np.sin of each: 0, 1e-6 rad, +-2e-6 rad,
\* 0.1 rad, +-30 degrees, 90 degrees and pi (whose float sine is below 1e-6).
InflowAngles == {0, 1, 2, 0 - 2, 100000, 523599, 0 - 523599, 1570796, 3141593}

\* np.sin between the angles above, for an angle np.arctan2 returned: linear
\* between the sines at multiples of 0.1 rad, sin(pi - phi) beyond pi / 2.
SinNodes == <<0, 100000, 200000, 300000, 400000, 500000, 600000, 700000, 800000, 900000,
              1000000, 1100000, 1200000, 1300000, 1400000, 1500000, 1570796>>
SinValues == <<0, 99833, 198669, 295520, 389418, 479426, 564642, 644218, 717356, 783327,
               841471, 891207, 932039, 963558, 985450, 997495, 1000000>>

SinBetween(phi) ==
    LET a == IF Abs(phi) > 1570796 THEN 3141593 - Abs(phi) ELSE Abs(phi)
        j == IF a >= 1570796 THEN 16
             ELSE CHOOSE i \in 1..16 : SinNodes[i] <= a /\ a < SinNodes[i + 1]
    IN  Sign(phi) * (SinValues[j] +
            ((SinValues[j + 1] - SinValues[j]) * ((a - SinNodes[j]) \div 100))
                \div ((SinNodes[j + 1] - SinNodes[j]) \div 100))

\* np.arctan2(y, x) in 1e-6 rad: linear between the arctangents at
\* multiples of 0.1, by quadrant; arctan2(0, 0) is 0.
AtanNodes == <<0, 1000, 2000, 3000, 4000, 5000, 6000, 7000, 8000, 9000, 10000>>
AtanValues == <<0, 99669, 197396, 291457, 380506, 463648, 540420, 610726, 674741, 732815, 785398>>

Arctan2(y, x) ==
    IF x = 0 /\ y = 0 THEN 0
    ELSE LET first == IF Abs(y) <= Abs(x)
                      THEN Interp((Abs(y) * 10 ^ 4) \div Abs(x), AtanNodes, AtanValues, 785398)
                      ELSE 1570796 - Interp((Abs(x) * 10 ^ 4) \div Abs(y), AtanNodes, AtanValues, 785398)
             half == IF x >= 0 THEN first ELSE 3141593 - first
         IN  IF y < 0 THEN 0 - half ELSE half

Sin(phi) ==
    CASE phi = 0 -> 0
      [] phi = 1 -> 0
      [] phi = 2 -> 2
      [] phi = 0 - 2 -> 0 - 2
      [] phi = 100000 -> 99833
      [] phi = 523599 -> 500000
      [] phi = 0 - 523599 -> 0 - 500000
      [] phi = 1570796 -> 1000000
      [] phi = 3141593 -> 0
      [] OTHER -> SinBetween(phi)

\* np.exp on the exponent grid, to the grid of the arccos argument.  Below
\* zero: exp(-n/100) as a product of tabulated factors, 0 from exp(-10) on.
\* Above zero the result is 1 + x, a lower bound of exp(x), capped: the
\* caller clips every value above 1.0 to 1.0.
ExpUnits == <<10000, 3678, 1353, 497, 183, 67, 24, 9, 3, 1>>
ExpTenths == <<10000, 9048, 8187, 7408, 6703, 6065, 5488, 4965, 4493, 4065>>
ExpHundredths == <<10000, 9900, 9801, 9704, 9607, 9512, 9417, 9323, 9231, 9139>>

Exp(e) ==
    IF e >= 0 THEN ArgOne + Min(e, ArgOne) * 100
    ELSE LET n == 0 - e
         IN  IF n >= 1000 THEN 0
             ELSE (((ExpUnits[(n \div 100) + 1] * ExpTenths[((n % 100) \div 10) + 1]) \div ArgOne)
                     * ExpHundredths[(n % 10) + 1]) \div ArgOne

\* np.arccos on [0, 1], in 1e-6 rad: linear between tabulated nodes.
ArccosNodes == <<0, 1000, 2000, 3000, 4000, 5000, 6000, 7000, 8000, 9000, 9500, 9900, 9990, 9999, 10000>>
ArccosValues == <<1570796, 1470628, 1369438, 1266103, 1159279, 1047197, 927295, 795398, 643501, 451026, 317560, 141539, 44725, 14142, 0>>

Arccos(arg) == Interp(arg, ArccosNodes, ArccosValues, 0)

\* (2.0 / np.pi) * np.arccos(arg), with 2/pi = 226/355.
TwoOverPiArccos(arg) == (Arccos(arg) * 226) \div 355

\* num / (den * sin_phi) on the exponent grid; a zero denominator gives the
\* infinity numpy gives (den * sin_phi is a zero with the sign of sin_phi).
LossRatio(num, den, sin_phi) ==
    IF den = 0 \/ sin_phi = 0
    THEN Sign(num) * Sign(sin_phi) * ExpInf
    ELSE FloorDiv(((num * 1000) \div den) * 10 ^ 5, sin_phi)

\* -(B / 2.0) * ratio
LossExponent(B, ratio) ==
    IF Abs(ratio) = ExpInf THEN (0 - Sign(B)) * ratio
    ELSE 0 - ((B * ratio) \div 2)

\* A slip that clips the factor to [0, 1].
ClipLossNoFloor(F) == Clip(F, 0, LossOne)

\* The final np.clip(F, 1e-6, 1.0) of both factors.
ClipLoss(F) == Clip(F, LossFloor, LossOne)

\* The common tail of both functions: exp, clip to [0, 1], arccos, clip.
LossOfExponent(exponent) ==
    LET arg == Clip(Exp(IF Abs(exponent) = ExpInf THEN Sign(exponent) * ArgOne ELSE exponent), 0, ArgOne)
    IN  ClipLoss(TwoOverPiArccos(arg))

\* prandtl_tip_loss(B, r, R, phi)
prandtl_tip_loss(B, r, R, phi) ==
    LET sin_phi == Sin(phi)
    IN  IF Abs(sin_phi) < SinEps
        THEN LossOne
        ELSE LossOfExponent(LossExponent(B, LossRatio(R - r, r, sin_phi)))

\* prandtl_hub_loss(B, r, R_hub, phi)
prandtl_hub_loss(B, r, R_hub, phi) ==
    LET sin_phi == Sin(phi)
    IN  IF Abs(sin_phi) < SinEps
        THEN LossOne
        ELSE LossOfExponent(LossExponent(B, LossRatio(r - R_hub, R_hub, sin_phi)))

\* A slip that applies the tip loss alone.
prandtl_tip_loss_only(r, R_hub, R_tip, B, phi) == prandtl_tip_loss(B, r, R_tip, phi)

\* prandtl_loss_factor(r, R_hub, R_tip, B, phi), which core.py imports from
\* this module: the combined loss factor, the product F_tip * F_hub.
prandtl_loss_factor(r, R_hub, R_tip, B, phi) ==
    (prandtl_tip_loss(B, r, R_tip, phi) * (prandtl_hub_loss(B, r, R_hub, phi) \div 1000)) \div 1000

------------------------------------------------------------------------------
(* airfoil_database_airfoiltools.py: the polar table.  Angles of attack are *)
(* on a 0.1 degree grid, coefficients on a 1e-4 grid, thickness ratios on a *)
(* 1e-3 grid, Reynolds numbers are integers.  The dict keeps insertion      *)
(* order, so it is a sequence of entries: an entry is the {"re_data": [..]} *)
(* dict of the first loop (built = FALSE) or the pair of interpolators that *)
(* the second loop puts in its place (built = TRUE).  A data frame is its   *)
(* set of columns and its AoA, CL and CD columns; every frame of the model  *)
(* has CL and CD columns and finite, increasing AoA values.                 *)

\* np.nan
NaN == 0 - 10 ^ 9

\* np.arange(-5.0, 15.5, 0.5)
STANDARD_AOAS == [k \in 1..41 |-> 5 * (k - 1) - 50]

\* The entries of AIRFOIL_THICKNESS_DB the model's names can hit.
AIRFOIL_THICKNESS_DB == [name \in {"e61", "naca4412", "s1223"} |-> CASE name = "e61" -> 56 [] name = "naca4412" -> 120 [] name = "s1223" -> 121]

DefaultThickness == 100
PenaltyCl == 10
PenaltyCd == 5000
CdFloor == 1

\* str.lower on the names the model uses.
Lower(airfoil_name) ==
    CASE airfoil_name = "S1223" -> "s1223"
      [] airfoil_name = "E61" -> "e61"
      [] OTHER -> airfoil_name

\* float(parts[1]): the value of a numeral, NaN stands for the ValueError.
Float(text) ==
    CASE text = "10000" -> 10000
      [] text = "20000" -> 20000
      [] text = "30000" -> 30000
      [] text = "40000" -> 40000
      [] OTHER -> NaN

\* np.interp(x, xp, fp, left, right)
NpInterp(x, xp, fp, left, right) ==
    IF x < xp[1] THEN left
    ELSE IF x > xp[Len(xp)] THEN right
    ELSE IF x = xp[Len(xp)] THEN fp[Len(fp)]
    ELSE LET j == CHOOSE i \in 1..(Len(xp) - 1) : xp[i] <= x /\ x < xp[i + 1]
         IN  IF fp[j] = NaN \/ fp[j + 1] = NaN THEN NaN
             ELSE fp[j] + FloorDiv((fp[j + 1] - fp[j]) * (x - xp[j]), xp[j + 1] - xp[j])

\* list(d.keys()), name in d, the position of a key, del d[name]
Keys(dict) == [i \in 1..Len(dict) |-> dict[i].name]
HasKey(dict, name) == \E i \in 1..Len(dict) : dict[i].name = name
IndexOf(dict, name) == CHOOSE i \in 1..Len(dict) : dict[i].name = name
Delete(dict, i) == SubSeq(dict, 1, i - 1) \o SubSeq(dict, i + 1, Len(dict))

\* {"re_data": re_data} under the key name
RawEntry(name, re_data) ==
    [name |-> name, built |-> FALSE, re_data |-> re_data,
     re_values |-> <<>>, cl_grid |-> <<>>, cd_grid |-> <<>>]

\* (interp_cl, interp_cd) on the axes (valid_re_values, STANDARD_AOAS), under
\* the key name
Interpolators(name, valid) ==
    [name |-> name, built |-> TRUE, re_data |-> <<>>,
     re_values |-> [k \in 1..Len(valid) |-> valid[k].re],
     cl_grid |-> [k \in 1..Len(valid) |-> valid[k].cl],
     cd_grid |-> [k \in 1..Len(valid) |-> valid[k].cd]]

\* The first loop of _load_airfoil_data over the files glob found, at file k.
\* Appending to an entry that is a pair of interpolators raises a TypeError,
\* which the loop's except prints.
RECURSIVE CollectFiles(_, _, _)
CollectFiles(files, k, dict) ==
    IF k > Len(files) THEN dict
    ELSE IF Len(files[k].parts) # 2 THEN CollectFiles(files, k + 1, dict)
    ELSE IF Float(files[k].parts[2]) = NaN THEN CollectFiles(files, k + 1, dict)
    ELSE IF "AoA" \notin files[k].df.columns THEN CollectFiles(files, k + 1, dict)
    ELSE IF Len(files[k].df.CL) < 2 THEN CollectFiles(files, k + 1, dict)
    ELSE The({ The({ IF d1[i].built
                     THEN CollectFiles(files, k + 1, d1)
                     ELSE The({ CollectFiles(files, k + 1, d2) :
                                d2 \in {[d1 EXCEPT ![i].re_data =
                                            Append(@, [re |-> Float(files[k].parts[2]),
                                                       df |-> files[k].df])]} }) :
                     i \in {IndexOf(d1, files[k].parts[1])} }) :
               d1 \in {IF HasKey(dict, files[k].parts[1]) THEN dict
                       ELSE Append(dict, RawEntry(files[k].parts[1], <<>>))} })

\* list.sort(key=lambda x: x['re']), a stable sort: the place of item i.
RankByRe(re_list_data, i) ==
    1 + Cardinality({j \in 1..Len(re_list_data) :
                        \/ re_list_data[j].re < re_list_data[i].re
                        \/ re_list_data[j].re = re_list_data[i].re /\ j < i})

SortByRe(re_list_data) ==
    [k \in 1..Len(re_list_data) |->
        re_list_data[CHOOSE i \in 1..Len(re_list_data) : RankByRe(re_list_data, i) = k]]

\* df.drop_duplicates(subset=['AoA']): the first row of every AoA is kept.
DropDuplicates(df) ==
    LET first(i) == \A j \in 1..(i - 1) : df.AoA[j] # df.AoA[i]
        rows == SelectSeq([i \in 1..Len(df.AoA) |-> i], first)
    IN  [columns |-> df.columns,
         AoA |-> [k \in 1..Len(rows) |-> df.AoA[rows[k]]],
         CL |-> [k \in 1..Len(rows) |-> df.CL[rows[k]]],
         CD |-> [k \in 1..Len(rows) |-> df.CD[rows[k]]]]

\* np.interp(STANDARD_AOAS, df['AoA'], column, left=np.nan, right=np.nan)
Resample(AoA, column) ==
    [k \in 1..Len(STANDARD_AOAS) |-> NpInterp(STANDARD_AOAS[k], AoA, column, NaN, NaN)]

\* np.isnan(v).any()
HasNaN(v) == \E k \in 1..Len(v) : v[k] = NaN

\* One Reynolds slice on the shared grid.
SliceOf(item) ==
    The({ [re |-> item.re, cl |-> Resample(df.AoA, df.CL), cd |-> Resample(df.AoA, df.CD)] :
          df \in {DropDuplicates(item.df)} })

\* The slices the inner loop appends to valid_re_values, cl_grid, cd_grid.
LongEnough(item) == Len(item.df.CL) >= 5
Complete(slice) == ~HasNaN(slice.cl)

ValidSlices(re_list_data) ==
    LET long == SelectSeq(re_list_data, LongEnough)
    IN  SelectSeq([k \in 1..Len(long) |-> SliceOf(long[k])], Complete)

\* RegularGridInterpolator accepts a strictly ascending axis only.
StrictlyAscending(v) == \A i \in 1..(Len(v) - 1) : v[i] < v[i + 1]

\* The second loop of _load_airfoil_data, the dict's iterator at position i,
\* and the assignment to _loaded after it.  A del inside the loop makes the
\* iterator's next step raise RuntimeError (dictionary changed size during
\* iteration), also after the last key; an entry that already is a pair of
\* interpolators has no "re_data".
RECURSIVE BuildInterpolators(_, _)
BuildInterpolators(dict, i) ==
    IF i > Len(dict) THEN [dict |-> dict, loaded |-> TRUE, raised |-> "none"]
    ELSE IF dict[i].built THEN [dict |-> dict, loaded |-> FALSE, raised |-> "TypeError"]
    ELSE The({ IF Len(valid) < 2
               THEN [dict |-> Delete(dict, i), loaded |-> FALSE, raised |-> "RuntimeError"]
               ELSE IF ~StrictlyAscending([k \in 1..Len(valid) |-> valid[k].re])
               THEN [dict |-> Delete(dict, i), loaded |-> FALSE, raised |-> "RuntimeError"]
               ELSE The({ BuildInterpolators(d1, i + 1) :
                          d1 \in {[dict EXCEPT ![i] = Interpolators(dict[i].name, valid)]} }) :
               valid \in {ValidSlices(SortByRe(dict[i].re_data))} })

\* _load_airfoil_data(): the dict, the flag and the exception it leaves.
_load_airfoil_data(files, dict, loaded) ==
    IF loaded THEN [dict |-> dict, loaded |-> TRUE, raised |-> "none"]
    ELSE IF files = <<>> THEN [dict |-> dict, loaded |-> FALSE, raised |-> "none"]
    ELSE The({ BuildInterpolators(collected, 1) : collected \in {CollectFiles(files, 1, dict)} })

\* The cell of an axis RegularGridInterpolator evaluates x in: the one that
\* holds x, the first or the last one for an x outside the axis.
FindIndex(grid, x) ==
    Clip(Cardinality({i \in 1..Len(grid) : grid[i] < x}), 1, Len(grid) - 1)

\* A slip that takes the value of the cell's lower node.
LinearLowerNode(v1, v2, g1, g2, x) == v1

Linear(v1, v2, g1, g2, x) ==
    IF v1 = NaN \/ v2 = NaN THEN NaN
    ELSE v1 + FloorDiv((v2 - v1) * (x - g1), g2 - g1)

\* interp(point) of a RegularGridInterpolator(bounds_error=False,
\* fill_value=None): linear in both axes, the edge cells continued outside.
EvalInterpolator(re_values, grid, reynolds, aoa_deg) ==
    LET i == FindIndex(re_values, reynolds)
        k == FindIndex(STANDARD_AOAS, aoa_deg)
        row(j) == Linear(grid[j][k], grid[j][k + 1], STANDARD_AOAS[k], STANDARD_AOAS[k + 1], aoa_deg)
    IN  Linear(row(i), row(i + 1), re_values[i], re_values[i + 1], reynolds)

\* get_airfoil_properties(airfoil_name, reynolds, aoa_deg) after its call of
\* _load_airfoil_data, which left the dict and raised nothing.
get_airfoil_properties(dict, airfoil_name, reynolds, aoa_deg) ==
    LET airfoil_name_lower == Lower(airfoil_name)
        t_c_ratio == IF airfoil_name_lower \in DOMAIN AIRFOIL_THICKNESS_DB
                     THEN AIRFOIL_THICKNESS_DB[airfoil_name_lower] ELSE DefaultThickness
        penalty == [raised |-> "none", cl |-> PenaltyCl, cd |-> PenaltyCd, t_c |-> t_c_ratio]
    IN  IF ~HasKey(dict, airfoil_name_lower) THEN penalty
        ELSE IF ~dict[IndexOf(dict, airfoil_name_lower)].built
        THEN [raised |-> "ValueError", cl |-> NaN, cd |-> NaN, t_c |-> NaN]
        ELSE The({ IF cl = NaN \/ cd = NaN THEN penalty
                   ELSE [raised |-> "none", cl |-> cl,
                         cd |-> IF cd <= CdFloor THEN CdFloor ELSE cd, t_c |-> t_c_ratio] :
                   cl \in {EvalInterpolator(dict[IndexOf(dict, airfoil_name_lower)].re_values,
                                            dict[IndexOf(dict, airfoil_name_lower)].cl_grid,
                                            reynolds, aoa_deg)},
                   cd \in {EvalInterpolator(dict[IndexOf(dict, airfoil_name_lower)].re_values,
                                            dict[IndexOf(dict, airfoil_name_lower)].cd_grid,
                                            reynolds, aoa_deg)} })

\* get_available_airfoils() after its call of _load_airfoil_data.
get_available_airfoils(dict) == [raised |-> "none", names |-> Keys(dict)]

\* No call of the table's functions: the state of the module at import.
TableIdle ==
    /\ csv_files = <<>>
    /\ _airfoil_interpolators = <<>>
    /\ _loaded = FALSE
    /\ load_calls = 0
    /\ table_call = [fn |-> "none"]

\* The threads that may call the table's functions, none of them inside a call.
Callers == {"a", "b"}
CallersIdle == callers = [t \in Callers |-> [pc |-> "idle"]]

\* No evaluation of the closure of an element.
ElementIdle == element_call = [fn |-> "none"]

\* main_optimizer.py has not run.
StudyIdle == study = [pc |-> "none"]

------------------------------------------------------------------------------
(* bemt_solver/core.py: solve_bemt.  Speeds count mm/s, so W_sq counts      *)
(* 1e-6 m^2/s^2; omega counts 1e-3 rad/s, a_prime counts 1e-2, air density  *)
(* counts 1e-3 kg/m^3, lift and drag coefficients count 1e-4, forces count  *)
(* 1e-6 N, torques 1e-6 N m, power 1e-6 W, efficiency 1e-3.                 *)
(*                                                                          *)
(* XFOIL is a separate program: what get_airfoil_performance returns for a  *)
(* call is drawn from XfoilAnswers, so the Reynolds number and the angle of *)
(* attack handed to it (and with them pitch and kinematic_viscosity) are    *)
(* not computed.  fsolve is MINPACK's hybrd: the model keeps its count of   *)
(* evaluations and draws the points it tries and the point it returns.      *)
(*                                                                          *)
(* A geometry built by geometry.py has no attribute airfoil_name, which     *)
(* solve_bemt reads; test_step3.py passes one to the constructor.  Both     *)
(* kinds of geometry are inputs of the model: the record of Propeller, and  *)
(* that record with the attribute set by the caller.                        *)

WSqMin == 100
WSqFinalMin == 1
FractionMin == 1
PowerMin == 1
VInfMin == 10
maxfev == 100
NumUnknowns == 2
FallbackCl == 0
FallbackCd == 2000

\* The largest s with s * s <= n: np.sqrt on the grid.
RECURSIVE ISqrt(_)
ISqrt(n) ==
    IF n < 2 THEN n
    ELSE The({ IF (s + 1) * (s + 1) <= n THEN s + 1 ELSE s : s \in {2 * ISqrt(n \div 4)} })

RECURSIVE SumSeq(_)
SumSeq(s) == IF s = <<>> THEN 0 ELSE Head(s) + SumSeq(Tail(s))

\* prop.airfoil_name = name, set by the caller of solve_bemt
WithAirfoilName(prop, name) == prop @@ [airfoil_name |-> name]
HasAirfoilName(prop) == "airfoil_name" \in DOMAIN prop

\* Propeller.get_chord(r)
get_chord(prop, r) ==
    Interp(r, prop.r_coords_geom, prop.chord_coords, prop.chord_coords[Len(prop.chord_coords)])

\* Propeller.get_airfoil_name(r): the name of the first control point at the
\* least distance from r (np.argmin).
get_airfoil_name(prop, r) ==
    LET dist(i) == Abs(prop.r_coords_airfoil[i] - r)
        idx == CHOOSE i \in 1..Len(prop.r_coords_airfoil) :
                  /\ \A j \in 1..Len(prop.r_coords_airfoil) : dist(i) <= dist(j)
                  /\ \A j \in 1..(i - 1) : dist(j) > dist(i)
    IN  prop.airfoil_names[idx]

\* rpm * 2.0 * np.pi / 60.0
Omega(rpm) == (rpm * 104720) \div 1000

\* A slip that takes half of the fraction.
FanThrustFractionQuarter(k_squared) == k_squared \div 4

\* 0.5 * k_squared, on the grid of the duct ratios
FanThrustFraction(k_squared) == k_squared \div 2

\* np.linspace(start, stop, num) for num >= 2
Linspace(start, stop, num) ==
    [i \in 1..num |-> start + FloorDiv((stop - start) * (i - 1), num - 1)]

\* Lines 29-42 of solve_bemt: the locals before the loop over the elements,
\* or the exception of radii[1] (np.linspace itself for a negative number).
Setup(prop, rpm, num_elements) ==
    IF num_elements + 1 < 0 THEN [raised |-> "ValueError"]
    ELSE IF num_elements + 1 < 2 THEN [raised |-> "IndexError"]
    ELSE The({ [raised |-> "none",
                omega |-> Omega(rpm),
                fan_thrust_fraction |-> FanThrustFraction(calculate_wake_contraction(prop)),
                r_centers |-> [i \in 1..num_elements |-> (radii[i] + radii[i + 1]) \div 2],
                dr |-> radii[2] - radii[1],
                total_fan_thrust_elements |-> 0,
                total_torque_elements |-> 0] :
               radii \in {Linspace(prop.hub_radius, prop.tip_radius, num_elements + 1)} })

\* omega * r * (1.0 - a_prime)
VTangential(omega, r, a_prime) == FloorDiv(FloorDiv(omega * r, 10 ^ 4) * (100 - a_prime), 100)

\* residuals(x) as far as the caller of fsolve can tell: it raises, it
\* returns (1.0, 1.0) for an invalid guess, or it returns the two residuals.
residuals(prop, v_infinity, omega, r, x, answer) ==
    LET v_axial == v_infinity + x.v_i
        v_tangential == VTangential(omega, r, x.a_prime)
        W_sq == v_axial * v_axial + v_tangential * v_tangential
    IN  IF W_sq < WSqMin THEN "invalid"
        ELSE IF ~HasAirfoilName(prop) THEN "AttributeError"
        ELSE IF answer.none THEN "invalid"
        ELSE "residual"

\* 0.5 * air_density * W_sq_final * (num_blades * chord) * C * dr, where
\* W_sq_final * C is W * n for C = n / W (cos and sin of phi_final are
\* v_tan_final / W and v_axial_final / W).
ElementForce(air_density, W, num_blades, chord, n, dr) ==
    FloorDiv(
        FloorDiv(FloorDiv(FloorDiv(W * FloorDiv(n, 10 ^ 4), 1000) * num_blades * chord, 1000) * dr,
                 1000) * air_density,
        200)

\* 4.0 * np.pi * r * air_density * v_axial * v * F per metre of span, on the
\* grid of the forces (4 pi = 12.57).
MomentumPerSpan(r, air_density, v_axial, v, F) ==
    (FloorDiv(FloorDiv(FloorDiv(FloorDiv(v_axial * v, 100) * r, 1000) * air_density, 1000)
                  * (F \div 1000), 1000) * 1257) \div 10

\* The value 1.0 of an invalid guess, on the grid of the residuals; the
\* threshold 0.35 and the 100.0 of hover, on the grid 1e-4 of a_eff.
ResidualOne == 10 ^ 6
AThreshold == 3500
AEffHover == 10 ^ 6

\* a_eff = v_i / v_infinity if v_infinity > 0.1 else 100.0
AEff(v_infinity, v_i) ==
    IF v_infinity > 100 THEN FloorDiv(v_i * 10 ^ 4, v_infinity) ELSE AEffHover

\* A slip whose branch above the threshold takes the momentum thrust of
\* hover, 4 * pi * r * rho * F * v_i^2.
MomentumThrustHoverBranch(a_eff, r, air_density, v_axial, v_i, F) ==
    IF a_eff > AThreshold
    THEN MomentumPerSpan(r, air_density, v_i, v_i, F)
    ELSE MomentumPerSpan(r, air_density, v_axial, v_i, F)

\* Lines 102-117: dT_total_mom_dr of either branch.
MomentumThrust(a_eff, r, air_density, v_axial, v_i, F) ==
    IF a_eff > AThreshold
    THEN MomentumPerSpan(r, air_density, v_axial, v_i, F)
    ELSE MomentumPerSpan(r, air_density, v_axial, v_i, F)

\* A slip that evaluates the loss factor at the tip radius.
LossFactorAtTip(prop, r, phi_rad) ==
    prandtl_loss_factor(prop.tip_radius, prop.hub_radius, prop.tip_radius, prop.num_blades, phi_rad)

\* Line 92: F, the loss factor at the element's radius and at the inflow
\* angle of the trial state.
LossFactorOfElement(prop, r, phi_rad) ==
    prandtl_loss_factor(r, prop.hub_radius, prop.tip_radius, prop.num_blades, phi_rad)

\* The locals of residuals(x) at its return: the flow, the name handed to
\* get_airfoil_performance ("none" when line 76 is not reached), whether a
\* division was evaluated, the loss factor, the branch of lines 102-117 and
\* its momentum thrust, and the pair returned.  `out` is residuals(x) as
\* fsolve's caller sees it.
ResidualsLocals(prop, v_infinity, air_density, omega, fan_thrust_fraction, r, x, answer) ==
    LET v_axial == v_infinity + x.v_i
        v_tangential == VTangential(omega, r, x.a_prime)
        phi_rad == Arctan2(v_axial, v_tangential)
        W_sq == v_axial * v_axial + v_tangential * v_tangential
        early(out, name, divided) ==
            [out |-> out, W_sq |-> W_sq, phi_rad |-> phi_rad, looked_up |-> name,
             divided |-> divided, F |-> 0, a_eff |-> 0, branch |-> "none",
             dT_total_mom_dr |-> 0, dT_fan_mom_dr |-> 0, dQ_mom_dr |-> 0,
             ret |-> IF out = "invalid" THEN <<ResidualOne, ResidualOne>> ELSE <<>>]
    IN  IF W_sq < WSqMin THEN early("invalid", "none", FALSE)
        ELSE IF ~HasAirfoilName(prop) THEN early("AttributeError", "none", TRUE)
        ELSE IF answer.none THEN early("invalid", prop.airfoil_name, TRUE)
        ELSE The({ [out |-> "residual", W_sq |-> W_sq, phi_rad |-> phi_rad,
                    looked_up |-> prop.airfoil_name, divided |-> TRUE,
                    F |-> F, a_eff |-> a_eff,
                    branch |-> IF a_eff > AThreshold THEN "hover" ELSE "forward",
                    dT_total_mom_dr |-> dT_total_mom_dr,
                    dT_fan_mom_dr |-> FloorDiv((dT_total_mom_dr \div 1000) * fan_thrust_fraction, 10),
                    dQ_mom_dr |-> dQ_mom_dr,
                    ret |-> << dT_blade_dr
                                 - FloorDiv((dT_total_mom_dr \div 1000) * fan_thrust_fraction, 10),
                               dQ_blade_dr - dQ_mom_dr >>] :
                   F \in {LossFactorOfElement(prop, r, phi_rad)},
                   a_eff \in {AEff(v_infinity, x.v_i)},
                   dT_total_mom_dr \in
                       {MomentumThrust(AEff(v_infinity, x.v_i), r, air_density, v_axial, x.v_i,
                                       LossFactorOfElement(prop, r, phi_rad))},
                   dQ_mom_dr \in
                       {FloorDiv((MomentumPerSpan(r, air_density, v_axial,
                                      FloorDiv(FloorDiv(omega * r, 10 ^ 4) * x.a_prime, 100),
                                      LossFactorOfElement(prop, r, phi_rad)) \div 1000) * r,
                                 10)},
                   dT_blade_dr \in
                       {ElementForce(air_density, ISqrt(W_sq), prop.num_blades, get_chord(prop, r),
                                     answer.cl * v_tangential - answer.cd * v_axial, 10 ^ 4)},
                   dQ_blade_dr \in
                       {FloorDiv(FloorDiv(ElementForce(air_density, ISqrt(W_sq), prop.num_blades,
                                                       get_chord(prop, r),
                                                       answer.cl * v_axial + answer.cd * v_tangential,
                                                       10 ^ 4), 1000) * r, 10)} })

\* A slip that finalizes every state, the state at rest included.
ElementLoadsNoGuard(prop, v_infinity, air_density, omega, dr, r, v_i_final, a_prime_final, answer) ==
    IF ~HasAirfoilName(prop)
    THEN [raised |-> "AttributeError", dT |-> 0, dQ |-> 0, looked_up |-> "none"]
    ELSE [raised |-> "none", dT |-> 0, dQ |-> 0, looked_up |-> prop.airfoil_name]

\* Lines 154-177 of solve_bemt: dT and dQ of the element at r and the name
\* handed to get_airfoil_performance ("none" when line 167 is not reached),
\* or the exception of reading prop.airfoil_name.
ElementLoads(prop, v_infinity, air_density, omega, dr, r, v_i_final, a_prime_final, answer) ==
    LET v_axial_final == v_infinity + v_i_final
        v_tan_final == VTangential(omega, r, a_prime_final)
        W_sq_final == v_axial_final * v_axial_final + v_tan_final * v_tan_final
        cl_final == IF answer.none THEN FallbackCl ELSE answer.cl
        cd_final == IF answer.none THEN FallbackCd ELSE answer.cd
    IN  IF W_sq_final < WSqFinalMin
        THEN [raised |-> "none", dT |-> 0, dQ |-> 0, looked_up |-> "none"]
        ELSE IF ~HasAirfoilName(prop)
        THEN [raised |-> "AttributeError", dT |-> 0, dQ |-> 0, looked_up |-> "none"]
        ELSE The({ [raised |-> "none", dT |-> dT, dQ |-> FloorDiv(dQ_over_r * r, 10 ^ 4),
                    looked_up |-> prop.airfoil_name] :
                   dT \in {ElementForce(air_density, ISqrt(W_sq_final), prop.num_blades,
                                        get_chord(prop, r),
                                        cl_final * v_tan_final - cd_final * v_axial_final, dr)},
                   dQ_over_r \in {ElementForce(air_density, ISqrt(W_sq_final), prop.num_blades,
                                               get_chord(prop, r),
                                               cl_final * v_axial_final + cd_final * v_tan_final,
                                               dr)} })

\* A slip that multiplies by the fraction.
TotalThrustTimesFraction(total_fan_thrust, fan_thrust_fraction) ==
    IF fan_thrust_fraction * 100 > FractionMin
    THEN FloorDiv(total_fan_thrust * fan_thrust_fraction, RatioOne)
    ELSE total_fan_thrust

\* Lines 188-193
TotalThrust(total_fan_thrust, fan_thrust_fraction) ==
    IF fan_thrust_fraction * 100 > FractionMin
    THEN FloorDiv(total_fan_thrust * RatioOne, fan_thrust_fraction)
    ELSE total_fan_thrust

\* A slip that guards the efficiency by the power alone.
AggregateNoVelocityGuard(v_infinity, omega, fan_thrust_fraction, total_fan_thrust, total_torque) ==
    The({ [raised |-> "none",
           total_thrust |-> total_thrust,
           total_fan_thrust |-> total_fan_thrust,
           total_duct_thrust |-> total_thrust - total_fan_thrust,
           total_torque |-> total_torque,
           power |-> power,
           efficiency |-> IF power > PowerMin
                          THEN FloorDiv(total_thrust * v_infinity, power) ELSE 0] :
          total_thrust \in {TotalThrust(total_fan_thrust, fan_thrust_fraction)},
          power \in {FloorDiv(total_torque * omega, 1000)} })

\* Lines 183-203 of solve_bemt: the tuple it returns.
Aggregate(v_infinity, omega, fan_thrust_fraction, total_fan_thrust, total_torque) ==
    The({ [raised |-> "none",
           total_thrust |-> total_thrust,
           total_fan_thrust |-> total_fan_thrust,
           total_duct_thrust |-> total_thrust - total_fan_thrust,
           total_torque |-> total_torque,
           power |-> power,
           efficiency |-> IF power > PowerMin /\ v_infinity > VInfMin
                          THEN FloorDiv(total_thrust * v_infinity, power) ELSE 0] :
          total_thrust \in {TotalThrust(total_fan_thrust, fan_thrust_fraction)},
          power \in {FloorDiv(total_torque * omega, 1000)} })

\* The tuple's place when solve_bemt raises.
Raised(exception) ==
    [raised |-> exception, total_thrust |-> 0, total_fan_thrust |-> 0, total_duct_thrust |-> 0,
     total_torque |-> 0, power |-> 0, efficiency |-> 0]

\* The search of an element: which element, the evaluations fsolve has
\* made, how it ended and the state lines 141-151 leave.
Search(elem, nfev, search, v_i_solved, a_prime_solved) ==
    [elem |-> elem, nfev |-> nfev, search |-> search,
     v_i_solved |-> v_i_solved, a_prime_solved |-> a_prime_solved]

\* test_step3.py compares two hover calls of a turning rotor: the rotor
\* without a duct (duct_length = 0.0, duct_lip_radius = 0.0) and the same
\* rotor with a duct of half a diameter with a lip of 0.031 diameters.
IsBaselineCall(args) ==
    /\ args.v_infinity = 0
    /\ args.rpm > 0
    /\ args.prop.duct_length = 0
    /\ args.prop.duct_lip_radius = 0

DuctedTwin(prop) ==
    [prop EXCEPT !.duct_length = prop.diameter \div 2,
                 !.duct_lip_radius = (31 * prop.diameter) \div 1000]

IsDuctedCall(args, baseline) ==
    /\ baseline.run
    /\ args.v_infinity = 0
    /\ args.rpm = baseline.rpm
    /\ args.num_elements = baseline.num_elements
    /\ args.prop = DuctedTwin(baseline.prop)

\* What the comparison keeps of a call that has ended: the baseline call
\* itself, the baseline of the ducted call, nothing of any other call.
BaselineAfter(args, result, baseline) ==
    IF IsBaselineCall(args)
    THEN [run |-> TRUE, prop |-> args.prop, rpm |-> args.rpm, num_elements |-> args.num_elements,
          raised |-> result.raised, total_thrust |-> result.total_thrust]
    ELSE IF IsDuctedCall(args, baseline) THEN baseline
    ELSE [run |-> FALSE]

\* No call of solve_bemt.
BemtIdle ==
    /\ bemt_pc = "idle"
    /\ bemt_args = <<>>
    /\ bemt_locals = <<>>
    /\ bemt_search = Search(0, 0, "none", 0, 0)
    /\ bemt_elements = <<>>
    /\ bemt_result = Raised("pending")
    /\ thrust_h_baseline = [run |-> FALSE]

-----------------------------------------------------------------------------
(* The duct model as a state machine: a caller builds a geometry and calls  *)
(* calculate_wake_contraction; the last two calls are kept.                 *)

MaxTip == 2
MaxDuctLen == 5
MaxLip == 3

TipRadii == {100 * k : k \in 1..MaxTip}
DuctLengths == {100 * j : j \in (-1)..MaxDuctLen}
LipRadii == {3 * i : i \in 0..MaxLip}

\* A two-point blade on the given tip radius, with the given duct.
DuctedProp(tip, len, lip) ==
    Propeller(0, tip, 2, <<0, tip>>, <<20, 10>>, <<40, 30>>, <<0, tip>>, <<"s1223", "e61">>, len, lip)

LastTwo(s) == IF Len(s) <= 2 THEN s ELSE SubSeq(s, Len(s) - 1, Len(s))

CallWakeContraction ==
    /\ \E tip \in TipRadii, len \in DuctLengths, lip \in LipRadii :
          LET prop == DuctedProp(tip, len, lip)
          IN  duct_calls' = LastTwo(Append(duct_calls,
                                [prop |-> prop, ret |-> calculate_wake_contraction(prop)]))
    /\ UNCHANGED <<lossVars, tableVars, bemtVars, geomVars, callerVars, elementVars, studyVars>>

InitDuct ==
    /\ duct_calls = <<>>
    /\ loss_calls = <<>>
    /\ TableIdle
    /\ BemtIdle
    /\ GeometryIdle
    /\ CallersIdle
    /\ ElementIdle
    /\ StudyIdle

NextDuct == CallWakeContraction

SpecDuct == InitDuct /\ [][NextDuct]_vars

\* C6: calculate_wake_contraction returns exactly 2.0 for every geometry whose
\* duct_length is zero or negative, whatever its diameter and lip radius.
C6_NoDuctIsTwo ==
    \A i \in 1..Len(duct_calls) :
        duct_calls[i].prop.duct_length <= 0 => duct_calls[i].ret = 2 * RatioOne

\* A call with a negative duct length and a lip has returned.
C6_Witness ==
    \E i \in 1..Len(duct_calls) :
        /\ duct_calls[i].prop.duct_length < 0
        /\ duct_calls[i].prop.duct_lip_radius > 0

C8_NonIncreasingInLength ==
    Len(duct_calls) = 2 =>
        LET a == duct_calls[1]
            b == duct_calls[2]
        IN  (/\ a.prop.diameter = b.prop.diameter
             /\ a.prop.duct_lip_radius = b.prop.duct_lip_radius
             /\ a.prop.duct_length <= b.prop.duct_length)
            => b.ret <= a.ret

-----------------------------------------------------------------------------
(* The loss factors as a state machine: a caller evaluates one of the two   *)
(* functions; the last call is kept.  Element radii are positive.           *)

MaxBlades == 3
MaxLossRadius == 3

LossBlades == 1..MaxBlades
LossRadii == {100 * k : k \in 1..MaxLossRadius}

CallTipLoss ==
    /\ \E B \in LossBlades, r \in LossRadii, R \in LossRadii, phi \in InflowAngles :
          loss_calls' = <<[fn |-> "tip", B |-> B, r |-> r, R |-> R, phi |-> phi,
                           ret |-> prandtl_tip_loss(B, r, R, phi)]>>
    /\ UNCHANGED <<ductVars, tableVars, bemtVars, geomVars, callerVars, elementVars, studyVars>>

CallHubLoss ==
    /\ \E B \in LossBlades, r \in LossRadii, R_hub \in LossRadii \cup {0}, phi \in InflowAngles :
          loss_calls' = <<[fn |-> "hub", B |-> B, r |-> r, R |-> R_hub, phi |-> phi,
                           ret |-> prandtl_hub_loss(B, r, R_hub, phi)]>>
    /\ UNCHANGED <<ductVars, tableVars, bemtVars, geomVars, callerVars, elementVars, studyVars>>

InitLoss ==
    /\ duct_calls = <<>>
    /\ loss_calls = <<>>
    /\ TableIdle
    /\ BemtIdle
    /\ GeometryIdle
    /\ CallersIdle
    /\ ElementIdle
    /\ StudyIdle

NextLoss == CallTipLoss \/ CallHubLoss

SpecLoss == InitLoss /\ [][NextLoss]_vars

------------------------------------------------------------------------------
(* The polar table as a state machine: a directory of csv files, written    *)
(* by generate_database.py or by hand, and callers of the two public        *)
(* functions.  A caller that catches an exception may call again.           *)

MaxReynolds == 2
MaxLoadCalls == 3

ReynoldsTexts == <<"10000", "20000", "30000", "40000">>
FileReynolds == 1..MaxReynolds
FileAirfoils == {"s1223", "E61"}
PolarKinds == {"absent", "full", "partial", "few"}

\* The polar XFOIL wrote for one airfoil at one Reynolds number: converged
\* over the whole sweep, over a part of it, at three angles, at one angle;
\* and a polar whose row at 5.0 degrees has an empty CD cell, which
\* pd.read_csv reads as NaN.
Polar(kind, re) ==
    CASE kind = "full" ->
           [columns |-> {"AoA", "CL", "CD"},
            AoA |-> <<-50, 0, 50, 100, 150>>,
            CL |-> <<re \div 100 - 2000, re \div 100 + 4000, re \div 100 + 9000,
                     re \div 100 + 13000, re \div 100 + 11000>>,
            CD |-> <<400 - re \div 200, 250 - re \div 200, 300 - re \div 200,
                     500 - re \div 200, 1500 - re \div 200>>]
      [] kind = "no_drag" ->
           [columns |-> {"AoA", "CL", "CD"},
            AoA |-> <<-50, 0, 50, 100, 150>>,
            CL |-> <<re \div 100 - 2000, re \div 100 + 4000, re \div 100 + 9000,
                     re \div 100 + 13000, re \div 100 + 11000>>,
            CD |-> <<400 - re \div 200, 250 - re \div 200, NaN,
                     500 - re \div 200, 1500 - re \div 200>>]
      [] kind = "partial" ->
           [columns |-> {"AoA", "CL", "CD"},
            AoA |-> <<-20, 0, 50, 100, 120>>,
            CL |-> <<2000, 4000, 9000, 13000, 12000>>,
            CD |-> <<300, 250, 300, 500, 900>>]
      [] kind = "few" ->
           [columns |-> {"AoA", "CL", "CD"},
            AoA |-> <<-50, 50, 150>>,
            CL |-> <<0 - 2000, 9000, 11000>>,
            CD |-> <<400, 300, 1500>>]
      [] kind = "empty" ->
           [columns |-> {"AoA", "CL", "CD"}, AoA |-> <<0>>, CL |-> <<4000>>, CD |-> <<250>>]

\* The file <airfoil>_re_<text>.csv and filename.replace(".csv", "").split("_re_")
CsvFile(airfoil, text, df) == [parts |-> <<airfoil, text>>, df |-> df]

\* Files that are no polar of the sweep: notes.csv, naca4412_re_old.csv, a
\* csv without an AoA column and a csv with a single row.
StrayFiles ==
    << [parts |-> <<"notes">>, df |-> Polar("empty", 0)],
       CsvFile("naca4412", "old", Polar("full", 10000)),
       CsvFile("naca4412", "20000", [columns |-> {"alpha", "CL", "CD"}, AoA |-> <<>>,
                                     CL |-> <<4000, 9000>>, CD |-> <<250, 300>>]),
       CsvFile("naca4412", "10000", Polar("empty", 10000)) >>

\* The files of one airfoil, highest Reynolds number first.
FilesOf(kinds, airfoil) ==
    LET present(i) == kinds[airfoil][MaxReynolds + 1 - i] # "absent"
        idx == SelectSeq([i \in 1..MaxReynolds |-> i], present)
    IN  [k \in 1..Len(idx) |->
            CsvFile(airfoil, ReynoldsTexts[MaxReynolds + 1 - idx[k]],
                    Polar(kinds[airfoil][MaxReynolds + 1 - idx[k]],
                          Float(ReynoldsTexts[MaxReynolds + 1 - idx[k]])))]

\* A directory of s1223 polars that all converged, one of them with the
\* empty CD cell.
DragGapListings ==
    { FilesOf([a \in FileAirfoils |->
                  [re \in FileReynolds |-> IF re = gap THEN "no_drag" ELSE "full"]], "s1223") :
        gap \in FileReynolds }

\* glob.glob lists the directory in an arbitrary order; the directory may
\* be empty.
Listings ==
    { StrayFiles \o FilesOf(kinds, order[1]) \o FilesOf(kinds, order[2]) :
        kinds \in [FileAirfoils -> [FileReynolds -> PolarKinds]],
        order \in {<<"s1223", "E61">>, <<"E61", "s1223">>} } \cup {<<>>} \cup DragGapListings

QueryNames == {"s1223", "S1223", "E61", "naca4412"}
QueryReynolds == {5000, 15000, 20000, 100000}
QueryAoas == {0 - 100, 50, 72}

GetAvailableAirfoils ==
    /\ _loaded \/ load_calls < MaxLoadCalls
    /\ \E load \in {_load_airfoil_data(csv_files, _airfoil_interpolators, _loaded)} :
          /\ _airfoil_interpolators' = load.dict
          /\ _loaded' = load.loaded
          /\ table_call' =
                IF load.raised # "none"
                THEN [fn |-> "get_available_airfoils", raised |-> load.raised, names |-> <<>>]
                ELSE [fn |-> "get_available_airfoils"] @@ get_available_airfoils(load.dict)
    /\ load_calls' = IF _loaded THEN load_calls ELSE load_calls + 1
    /\ UNCHANGED <<csv_files, ductVars, lossVars, bemtVars, geomVars, callerVars, elementVars, studyVars>>

GetAirfoilProperties ==
    /\ _loaded \/ load_calls < MaxLoadCalls
    /\ \E load \in {_load_airfoil_data(csv_files, _airfoil_interpolators, _loaded)} :
          /\ _airfoil_interpolators' = load.dict
          /\ _loaded' = load.loaded
          /\ \E airfoil_name \in QueryNames, reynolds \in QueryReynolds, aoa_deg \in QueryAoas :
                table_call' =
                    [fn |-> "get_airfoil_properties", airfoil_name |-> airfoil_name,
                     reynolds |-> reynolds, aoa_deg |-> aoa_deg] @@
                    (IF load.raised # "none"
                     THEN [raised |-> load.raised, cl |-> NaN, cd |-> NaN, t_c |-> NaN]
                     ELSE get_airfoil_properties(load.dict, airfoil_name, reynolds, aoa_deg))
    /\ load_calls' = IF _loaded THEN load_calls ELSE load_calls + 1
    /\ UNCHANGED <<csv_files, ductVars, lossVars, bemtVars, geomVars, callerVars, elementVars, studyVars>>

InitTable ==
    /\ duct_calls = <<>>
    /\ loss_calls = <<>>
    /\ csv_files \in Listings
    /\ _airfoil_interpolators = <<>>
    /\ _loaded = FALSE
    /\ load_calls = 0
    /\ table_call = [fn |-> "none"]
    /\ BemtIdle
    /\ GeometryIdle
    /\ CallersIdle
    /\ ElementIdle
    /\ StudyIdle

NextTable == GetAvailableAirfoils \/ GetAirfoilProperties

SpecTable == InitTable /\ [][NextTable]_vars

\* The slices of an airfoil that the directory holds and that survive the
\* resampling: read from the files, not from the dict.
SurvivingSlices(airfoil) ==
    {i \in 1..Len(csv_files) :
        /\ Len(csv_files[i].parts) = 2
        /\ csv_files[i].parts[1] = airfoil
        /\ Float(csv_files[i].parts[2]) # NaN
        /\ "AoA" \in csv_files[i].df.columns
        /\ Len(csv_files[i].df.CL) >= 5
        /\ csv_files[i].df.AoA[1] <= STANDARD_AOAS[1]
        /\ csv_files[i].df.AoA[Len(csv_files[i].df.AoA)] >= STANDARD_AOAS[Len(STANDARD_AOAS)]}

\* C10: after the table load an airfoil with fewer than two surviving
\* Reynolds slices is not in the table and is not returned by
\* get_available_airfoils, and every airfoil with at least two surviving
\* slices is in the table and is returned.
C10_SlicesDecideAvailability ==
    table_call.fn = "get_available_airfoils" =>
        /\ table_call.raised = "none"
        /\ \A airfoil \in FileAirfoils :
              /\ Cardinality(SurvivingSlices(airfoil)) >= 2
                    <=> (\E k \in 1..Len(table_call.names) : table_call.names[k] = airfoil)
              /\ Cardinality(SurvivingSlices(airfoil)) >= 2
                    <=> HasKey(_airfoil_interpolators, airfoil)

\* C2: get_airfoil_properties with a name whose lowercase form is not a key
\* of the table returns cl = 0.001 and cd = 0.5 and raises nothing.
C2_UnknownAirfoilGetsPenalty ==
    (/\ table_call.fn = "get_airfoil_properties"
     /\ ~HasKey(_airfoil_interpolators, Lower(table_call.airfoil_name)))
        => /\ table_call.raised = "none"
           /\ table_call.cl = PenaltyCl
           /\ table_call.cd = PenaltyCd

\* C29: an identifier get_available_airfoils returns, passed unchanged to
\* get_airfoil_properties, resolves to the table entry of that airfoil and
\* not to the penalty of an unknown airfoil, whatever the letter case of the
\* file names the table was loaded from.
C29_ListedNamesResolve ==
    (/\ table_call.fn = "get_airfoil_properties"
     /\ table_call.raised = "none"
     /\ HasKey(_airfoil_interpolators, table_call.airfoil_name))
        => /\ HasKey(_airfoil_interpolators, Lower(table_call.airfoil_name))
           /\ IndexOf(_airfoil_interpolators, Lower(table_call.airfoil_name))
                 = IndexOf(_airfoil_interpolators, table_call.airfoil_name)

\* C24: a Reynolds slice is in an airfoil's grid only if, resampled onto
\* STANDARD_AOAS, neither its lift vector nor its drag vector has a missing
\* value: no row of a built cl_grid or cd_grid holds NaN.
C24_GridSlicesComplete ==
    \A i \in 1..Len(_airfoil_interpolators) :
        _airfoil_interpolators[i].built =>
            \A k \in 1..Len(_airfoil_interpolators[i].re_values) :
                /\ ~HasNaN(_airfoil_interpolators[i].cl_grid[k])
                /\ ~HasNaN(_airfoil_interpolators[i].cd_grid[k])

\* C11: over any sequence of calls of get_available_airfoils and
\* get_airfoil_properties the body of _load_airfoil_data (the scan of the
\* directory and the construction of the interpolators) runs at most once,
\* and once a call has run it the table never changes: no later call runs
\* the body again or leaves another dict.
C11_BuiltOnceThenFrozen ==
    [][load_calls >= 1 =>
          /\ load_calls' = load_calls
          /\ _airfoil_interpolators' = _airfoil_interpolators]_vars

\* The entry of the table the last call of get_airfoil_properties read.
QueriedEntry == _airfoil_interpolators[IndexOf(_airfoil_interpolators, Lower(table_call.airfoil_name))]

\* The last call was get_airfoil_properties for an airfoil of the table,
\* and it returned.
QueriedLoaded ==
    /\ table_call.fn = "get_airfoil_properties"
    /\ table_call.raised = "none"
    /\ HasKey(_airfoil_interpolators, Lower(table_call.airfoil_name))
    /\ QueriedEntry.built

\* C12: for an airfoil of the table, get_airfoil_properties at a Reynolds
\* number and an angle of attack that are a node of the airfoil's grid
\* returns the cl and the cd stored at the node.
C12_NodeQueryReturnsStored ==
    QueriedLoaded =>
        \A i \in 1..Len(QueriedEntry.re_values), k \in 1..Len(STANDARD_AOAS) :
            (table_call.reynolds = QueriedEntry.re_values[i] /\ table_call.aoa_deg = STANDARD_AOAS[k])
                => /\ table_call.cl = QueriedEntry.cl_grid[i][k]
                   /\ table_call.cd = QueriedEntry.cd_grid[i][k]

\* A query at the second Reynolds number of the grid and at 5 degrees, an
\* inner node of the angle axis, has returned.
C12_Witness ==
    /\ QueriedLoaded
    /\ table_call.reynolds = QueriedEntry.re_values[2]
    /\ table_call.aoa_deg = STANDARD_AOAS[21]
    /\ table_call.cl = QueriedEntry.cl_grid[2][21]

\* The last query with each coordinate moved to the nearest bound of the
\* queried airfoil's grid.
ClampedQuery ==
    get_airfoil_properties(_airfoil_interpolators, table_call.airfoil_name,
        Clip(table_call.reynolds, QueriedEntry.re_values[1],
             QueriedEntry.re_values[Len(QueriedEntry.re_values)]),
        Clip(table_call.aoa_deg, STANDARD_AOAS[1], STANDARD_AOAS[Len(STANDARD_AOAS)]))

\* C13: for an airfoil of the table, a query whose Reynolds number or angle
\* of attack lies outside the grid returns the cl and the cd of the query
\* with each coordinate clamped to the nearest bound of the grid.
C13_OutsideGridClamps ==
    QueriedLoaded =>
        \A clamped \in {ClampedQuery} :
            /\ table_call.cl = clamped.cl
            /\ table_call.cd = clamped.cd

\* cl_func(point) and cd_func(point) of the last query.
InterpolatedCl ==
    EvalInterpolator(QueriedEntry.re_values, QueriedEntry.cl_grid,
                     table_call.reynolds, table_call.aoa_deg)
InterpolatedCd ==
    EvalInterpolator(QueriedEntry.re_values, QueriedEntry.cd_grid,
                     table_call.reynolds, table_call.aoa_deg)

\* C14: for an airfoil of the table, when the interpolation yields a cl or
\* a cd that is not finite, or a cd that is not positive,
\* get_airfoil_properties returns the penalty tuple of an unknown airfoil,
\* cl = 0.001 and cd = 0.5.
C14_BadDragGetsPenalty ==
    QueriedLoaded =>
        \A cl \in {InterpolatedCl}, cd \in {InterpolatedCd} :
            (cl = NaN \/ cd = NaN \/ cd <= 0)
                => /\ table_call.cl = PenaltyCl
                   /\ table_call.cd = PenaltyCd

------------------------------------------------------------------------------
(* solve_bemt as a state machine: a caller calls it with a geometry and an  *)
(* operating condition; the call runs fsolve for one element after the      *)
(* other, one evaluation of residuals per step, finalizes each element and  *)
(* returns the aggregate or ends in an exception.                           *)

MaxElements == 2

HubRadius == 1000
TipRadius == 3000

\* The rotor of the runs: no duct (a zero and a negative duct_length), a duct
\* of half a diameter, a duct of one diameter with the reference lip; built
\* by geometry.py, and the same with the attribute airfoil_name.
BemtBuilt ==
    { Propeller(HubRadius, TipRadius, 2, <<HubRadius, TipRadius>>, <<20, 10>>, <<400, 200>>,
                <<HubRadius, TipRadius>>, <<"s1223", "e61">>, duct[1], duct[2]) :
        duct \in {<<0, 0>>, <<0 - 100, 0>>, <<3000, 186>>, <<6000, 186>>} }
\* The same rotor without blades and without a duct.
BemtBladeless ==
    Propeller(HubRadius, TipRadius, 0, <<HubRadius, TipRadius>>, <<20, 10>>, <<400, 200>>,
              <<HubRadius, TipRadius>>, <<"s1223", "e61">>, 0, 0)
BemtProps ==
    BemtBuilt \cup {WithAirfoilName(prop, "naca2412") : prop \in BemtBuilt \cup {BemtBladeless}}

\* <<v_infinity, rpm>>: hover, forward flight, a turning rotor in a draught
\* of 5 mm/s, a stopped rotor in still air, in the draught and in a stream
\* of 2 m/s.
BemtConditions == {<<0, 60>>, <<2000, 60>>, <<5, 60>>, <<0, 0>>, <<5, 0>>, <<2000, 0>>}
AirDensity == 1225

XfoilAnswers ==
    { [none |-> TRUE, cl |-> 0, cd |-> 0],
      [none |-> FALSE, cl |-> 8000, cd |-> 200],
      [none |-> FALSE, cl |-> 0 - 3000, cd |-> 500] }

\* [v_i_init, a_prime_init], the points hybrd tries, the points it returns
InitialGuess == [v_i |-> 1000, a_prime |-> 1]
SolvedStates == {[v_i |-> 500, a_prime |-> 2], [v_i |-> 1500, a_prime |-> 10]}
TrialPoints == SolvedStates \cup {[v_i |-> 0, a_prime |-> 100]}

\* A slip that starts the search of an element from the state the element
\* before it was solved with.
StartSearchWarm(elem, last) ==
    Search(elem, 0, "running", 0, 0) @@
        [x0 |-> IF elem = 1 THEN InitialGuess
                ELSE [v_i |-> last.v_i_solved, a_prime |-> last.a_prime_solved]]

\* The search of an element before fsolve's first evaluation: lines 137-139
\* set the starting point, whatever the search before it left.
StartSearch(elem, last) == Search(elem, 0, "running", 0, 0) @@ [x0 |-> InitialGuess]

\* ier of fsolve as the log keeps it
Outcome(ier) == IF ier = 1 THEN "converged" ELSE IF ier = 2 THEN "maxfev" ELSE "not_converged"

CallSolveBemt ==
    /\ bemt_pc \in {"idle", "done"}
    /\ \E prop \in BemtProps, cond \in BemtConditions, num_elements \in 0..MaxElements :
          \E setup \in {Setup(prop, cond[2], num_elements)} :
              /\ bemt_args' = [prop |-> prop, v_infinity |-> cond[1], rpm |-> cond[2],
                               air_density |-> AirDensity, num_elements |-> num_elements]
              /\ bemt_elements' = <<>>
              /\ IF setup.raised # "none"
                 THEN /\ bemt_pc' = "done"
                      /\ bemt_locals' = <<>>
                      /\ bemt_search' = Search(0, 0, "none", 0, 0)
                      /\ bemt_result' = Raised(setup.raised)
                 ELSE /\ bemt_pc' = "search"
                      /\ bemt_locals' = setup
                      /\ bemt_search' = StartSearch(1, bemt_search)
                      /\ bemt_result' = Raised("pending")
              /\ thrust_h_baseline' =
                    IF setup.raised # "none"
                    THEN BaselineAfter(bemt_args', Raised(setup.raised), thrust_h_baseline)
                    ELSE IF IsDuctedCall(bemt_args', thrust_h_baseline) THEN thrust_h_baseline
                    ELSE [run |-> FALSE]
    /\ UNCHANGED <<ductVars, lossVars, tableVars, geomVars, callerVars, elementVars, studyVars>>

\* One call of residuals by fsolve.  An exception leaves fsolve and is
\* caught at line 149.
EvalResiduals ==
    /\ bemt_pc = "search"
    /\ bemt_search.nfev < maxfev + NumUnknowns
    /\ \E x \in (IF bemt_search.nfev = 0 THEN {bemt_search.x0} ELSE TrialPoints),
          answer \in XfoilAnswers :
          \E out \in {residuals(bemt_args.prop, bemt_args.v_infinity, bemt_locals.omega,
                                bemt_locals.r_centers[bemt_search.elem], x, answer)} :
              IF out = "AttributeError"
              THEN /\ bemt_pc' = "finalize"
                   /\ bemt_search' = Search(bemt_search.elem, bemt_search.nfev, "raised", 0, 0)
              ELSE /\ bemt_pc' = "search"
                   /\ bemt_search' = [bemt_search EXCEPT !.nfev = @ + 1]
    /\ UNCHANGED <<bemt_args, bemt_locals, bemt_elements, bemt_result, thrust_h_baseline>>
    /\ UNCHANGED <<ductVars, lossVars, tableVars, geomVars, callerVars, elementVars, studyVars>>

\* fsolve returns: ier = 1 with the point it found, or another ier, for
\* which line 147 sets the state to zero.  hybrd tests nfev >= maxfev once
\* per iteration, after the evaluations of a forward-difference Jacobian.
FsolveReturns ==
    /\ bemt_pc = "search"
    /\ bemt_search.nfev >= 1
    /\ \E ier \in 1..5, solved \in SolvedStates :
          /\ ier = 2 => bemt_search.nfev >= maxfev
          /\ bemt_search' = Search(bemt_search.elem, bemt_search.nfev, Outcome(ier),
                                   IF ier # 1 THEN 0 ELSE solved.v_i,
                                   IF ier # 1 THEN 0 ELSE solved.a_prime)
    /\ bemt_pc' = "finalize"
    /\ UNCHANGED <<bemt_args, bemt_locals, bemt_elements, bemt_result, thrust_h_baseline>>
    /\ UNCHANGED <<ductVars, lossVars, tableVars, geomVars, callerVars, elementVars, studyVars>>

\* Lines 153-180 for the element at hand, then the next element or the end
\* of the loop.
FinalizeElement ==
    /\ bemt_pc = "finalize"
    /\ \E answer \in XfoilAnswers :
          \E loads \in {ElementLoads(bemt_args.prop, bemt_args.v_infinity, bemt_args.air_density,
                                     bemt_locals.omega, bemt_locals.dr,
                                     bemt_locals.r_centers[bemt_search.elem],
                                     bemt_search.v_i_solved, bemt_search.a_prime_solved, answer)} :
              IF loads.raised # "none"
              THEN /\ bemt_pc' = "done"
                   /\ bemt_result' = Raised(loads.raised)
                   /\ thrust_h_baseline' =
                         BaselineAfter(bemt_args, Raised(loads.raised), thrust_h_baseline)
                   /\ UNCHANGED <<bemt_locals, bemt_search, bemt_elements>>
              ELSE /\ bemt_locals' = [bemt_locals EXCEPT
                                         !.total_fan_thrust_elements = @ + loads.dT,
                                         !.total_torque_elements = @ + loads.dQ]
                   /\ bemt_elements' = Append(bemt_elements,
                                          [search |-> bemt_search.search,
                                           v_i_final |-> bemt_search.v_i_solved,
                                           a_prime_final |-> bemt_search.a_prime_solved,
                                           dT |-> loads.dT, dQ |-> loads.dQ,
                                           looked_up |-> loads.looked_up])
                   /\ IF bemt_search.elem < bemt_args.num_elements
                      THEN /\ bemt_pc' = "search"
                           /\ bemt_search' = StartSearch(bemt_search.elem + 1, bemt_search)
                      ELSE /\ bemt_pc' = "aggregate"
                           /\ bemt_search' = Search(0, 0, "none", 0, 0)
                   /\ UNCHANGED <<bemt_result, thrust_h_baseline>>
    /\ UNCHANGED bemt_args
    /\ UNCHANGED <<ductVars, lossVars, tableVars, geomVars, callerVars, elementVars, studyVars>>

\* Lines 183-203
ReturnResult ==
    /\ bemt_pc = "aggregate"
    /\ bemt_pc' = "done"
    /\ bemt_result' = Aggregate(bemt_args.v_infinity, bemt_locals.omega,
                                bemt_locals.fan_thrust_fraction,
                                bemt_locals.total_fan_thrust_elements,
                                bemt_locals.total_torque_elements)
    /\ thrust_h_baseline' = BaselineAfter(bemt_args, bemt_result', thrust_h_baseline)
    /\ UNCHANGED <<bemt_args, bemt_locals, bemt_search, bemt_elements>>
    /\ UNCHANGED <<ductVars, lossVars, tableVars, geomVars, callerVars, elementVars, studyVars>>

InitBemt ==
    /\ duct_calls = <<>>
    /\ loss_calls = <<>>
    /\ TableIdle
    /\ BemtIdle
    /\ GeometryIdle
    /\ CallersIdle
    /\ ElementIdle
    /\ StudyIdle

NextBemt == CallSolveBemt \/ EvalResiduals \/ FsolveReturns \/ FinalizeElement \/ ReturnResult

SpecBemt == InitBemt /\ [][NextBemt]_vars

\* C3: solve_bemt raises no exception, whatever the constructed geometry,
\* the operating condition and the element count.
C3_SolveBemtNeverRaises ==
    bemt_pc = "done" => bemt_result.raised = "none"

\* C1: an element whose search did not converge (ier # 1, the evaluation cap
\* included) or raised has the induced state (0, 0), is finalized with it,
\* the elements after it are processed, and the call does not end in an
\* exception.
C1_FailedSearchIsAbsorbed ==
    /\ \A i \in 1..Len(bemt_elements) :
          bemt_elements[i].search # "converged" =>
              bemt_elements[i].v_i_final = 0 /\ bemt_elements[i].a_prime_final = 0
    /\ bemt_search.search \in {"maxfev", "not_converged", "raised"} =>
          /\ bemt_search.v_i_solved = 0 /\ bemt_search.a_prime_solved = 0
          /\ bemt_pc # "done"
    /\ (bemt_pc = "done" /\ \E i \in 1..Len(bemt_elements) : bemt_elements[i].search # "converged")
          => /\ bemt_result.raised = "none"
             /\ Len(bemt_elements) = bemt_args.num_elements

\* C4: in every result fan thrust is the sum of the elements' dT, torque the
\* sum of their dQ, power is torque times omega, total thrust is fan thrust
\* over the fraction when the fraction exceeds 1e-6 and fan thrust
\* otherwise, and duct thrust is total thrust minus fan thrust.
C4_AggregateRelations ==
    (bemt_pc = "done" /\ bemt_result.raised = "none") =>
        /\ bemt_result.total_fan_thrust =
              SumSeq([i \in 1..Len(bemt_elements) |-> bemt_elements[i].dT])
        /\ bemt_result.total_torque =
              SumSeq([i \in 1..Len(bemt_elements) |-> bemt_elements[i].dQ])
        /\ bemt_result.power = FloorDiv(bemt_result.total_torque * bemt_locals.omega, 1000)
        /\ bemt_result.total_thrust =
              IF bemt_locals.fan_thrust_fraction * 100 > 1
              THEN FloorDiv(bemt_result.total_fan_thrust * RatioOne, bemt_locals.fan_thrust_fraction)
              ELSE bemt_result.total_fan_thrust
        /\ bemt_result.total_duct_thrust = bemt_result.total_thrust - bemt_result.total_fan_thrust
        /\ bemt_result.total_thrust = bemt_result.total_fan_thrust + bemt_result.total_duct_thrust

\* A ducted rotor of two elements has returned a result with thrust, duct
\* thrust and torque.
C4_Witness ==
    /\ bemt_pc = "done"
    /\ bemt_result.raised = "none"
    /\ Len(bemt_elements) = 2
    /\ bemt_elements[1].dT # 0 /\ bemt_elements[2].dT # 0
    /\ bemt_locals.fan_thrust_fraction < RatioOne
    /\ bemt_result.total_fan_thrust > 0
    /\ bemt_result.total_duct_thrust > 0
    /\ bemt_result.total_torque # 0

\* The orders the elements of the call can be summed in.
ElementOrders ==
    {order \in [1..Len(bemt_elements) -> 1..Len(bemt_elements)] :
        \A i, j \in 1..Len(bemt_elements) : order[i] = order[j] => i = j}

\* C15: the tuple solve_bemt returns is the same for every order of the
\* elements: the search of every element starts from the fixed initial guess
\* with nothing kept of the element before it, the dT and dQ of an element
\* are those of its own radius, its own solved state and the call's inputs,
\* and the tuple is the aggregate of the sums of dT and dQ taken in any
\* order.
C15_ElementOrderInvariant ==
    /\ bemt_pc = "search" =>
          /\ bemt_search.x0 = InitialGuess
          /\ bemt_search.v_i_solved = 0 /\ bemt_search.a_prime_solved = 0
    /\ \A i \in 1..Len(bemt_elements) :
          \E answer \in XfoilAnswers :
              \E loads \in {ElementLoads(bemt_args.prop, bemt_args.v_infinity,
                                         bemt_args.air_density, bemt_locals.omega, bemt_locals.dr,
                                         bemt_locals.r_centers[i], bemt_elements[i].v_i_final,
                                         bemt_elements[i].a_prime_final, answer)} :
                  loads.dT = bemt_elements[i].dT /\ loads.dQ = bemt_elements[i].dQ
    /\ (bemt_pc = "done" /\ bemt_result.raised = "none") =>
          \A order \in ElementOrders :
              bemt_result =
                  Aggregate(bemt_args.v_infinity, bemt_locals.omega, bemt_locals.fan_thrust_fraction,
                            SumSeq([i \in 1..Len(bemt_elements) |-> bemt_elements[order[i]].dT]),
                            SumSeq([i \in 1..Len(bemt_elements) |-> bemt_elements[order[i]].dQ]))

\* A call of two elements has returned; both searches converged, to
\* different states, and the two elements carry different loads.
C15_Witness ==
    /\ bemt_pc = "done"
    /\ bemt_result.raised = "none"
    /\ Len(bemt_elements) = 2
    /\ bemt_elements[1].search = "converged" /\ bemt_elements[2].search = "converged"
    /\ bemt_elements[1].v_i_final # bemt_elements[2].v_i_final
    /\ bemt_elements[1].dT # bemt_elements[2].dT
    /\ bemt_elements[1].dT # 0 /\ bemt_elements[2].dT # 0

\* C16: for a geometry without blades or a rotational speed of zero, at
\* any freestream velocity, solve_bemt returns torque 0, power 0 and
\* thrust 0.
C16_StoppedRotorIsZero ==
    (/\ bemt_pc = "done"
     /\ bemt_result.raised = "none"
     /\ bemt_args.prop.num_blades = 0 \/ bemt_args.rpm = 0)
        => /\ bemt_result.total_torque = 0
           /\ bemt_result.power = 0
           /\ bemt_result.total_thrust = 0
           /\ bemt_result.total_fan_thrust = 0

\* C18: the efficiency solve_bemt returns is total_thrust * v_infinity /
\* power when power > 1e-6 and v_infinity > 0.01, and exactly 0 in every
\* other case; at hover (v_infinity = 0) it is 0.
C18_EfficiencyGuarded ==
    (bemt_pc = "done" /\ bemt_result.raised = "none") =>
        /\ (bemt_result.power > 1 /\ bemt_args.v_infinity > 10) =>
               bemt_result.efficiency =
                   FloorDiv(bemt_result.total_thrust * bemt_args.v_infinity, bemt_result.power)
        /\ ~(bemt_result.power > 1 /\ bemt_args.v_infinity > 10) => bemt_result.efficiency = 0
        /\ bemt_args.v_infinity = 0 => bemt_result.efficiency = 0

\* A call in forward flight has returned with power and an efficiency
\* that is not zero.
C18_Witness ==
    /\ bemt_pc = "done"
    /\ bemt_result.raised = "none"
    /\ bemt_args.v_infinity > 10
    /\ bemt_result.power > 1
    /\ bemt_result.total_thrust > 0
    /\ bemt_result.efficiency > 0

\* C17: for the same rotor and RPM, the geometry with a duct of length 0.5
\* diameters and a lip radius of 0.031 diameters yields a strictly greater
\* total_thrust from solve_bemt than the geometry with no duct.
C17_DuctedThrustGreater ==
    (bemt_pc = "done" /\ IsDuctedCall(bemt_args, thrust_h_baseline)) =>
        /\ thrust_h_baseline.raised = "none"
        /\ bemt_result.raised = "none"
        /\ bemt_result.total_thrust > thrust_h_baseline.total_thrust

\* C21: every call of solve_bemt terminates having processed exactly
\* num_elements elements; the search of an element makes at most 100
\* evaluations of residuals, and a search that reaches the cap is a search
\* that did not converge, not an error.
C21_BoundedSearchAllElements ==
    /\ bemt_search.nfev <= 100
    /\ bemt_pc # "idle" => Len(bemt_elements) <= bemt_args.num_elements
    /\ bemt_pc = "done" => Len(bemt_elements) = bemt_args.num_elements
    /\ bemt_search.search = "maxfev" =>
          bemt_search.v_i_solved = 0 /\ bemt_search.a_prime_solved = 0

\* C22: for each element, the airfoil name solve_bemt hands to the lookup
\* is the name the geometry assigns to the element's centre radius: that of
\* the airfoil control point nearest to it.
C22_LookupUsesElementAirfoil ==
    \A i \in 1..Len(bemt_elements) :
        bemt_elements[i].looked_up # "none" =>
            bemt_elements[i].looked_up = get_airfoil_name(bemt_args.prop, bemt_locals.r_centers[i])

\* C5: for a geometry with duct_length <= 0 every result has duct thrust 0
\* and total thrust equal to fan thrust.
C5_NoDuctNoDuctThrust ==
    (bemt_pc = "done" /\ bemt_result.raised = "none" /\ bemt_args.prop.duct_length <= 0) =>
        /\ bemt_result.total_duct_thrust = 0
        /\ bemt_result.total_thrust = bemt_result.total_fan_thrust

\* A rotor without a duct has returned a result with fan thrust in forward
\* flight.
C5_Witness ==
    /\ bemt_pc = "done"
    /\ bemt_result.raised = "none"
    /\ bemt_args.prop.duct_length <= 0
    /\ bemt_args.v_infinity > 0
    /\ bemt_result.total_fan_thrust # 0
    /\ bemt_result.total_duct_thrust = 0

\* C28: the fan_thrust_fraction of solve_bemt lies in [0.5, 1.0] and is 1.0
\* exactly for a geometry without a duct, for the call at hand and for every
\* geometry of the duct grid; the branch for a fraction <= 1e-6 is not
\* taken, and a result with non-negative fan thrust has
\* 0 <= duct thrust <= fan thrust.
C28_FractionBoundsDuctThrust ==
    /\ bemt_pc = "idle" =>
          \A tip \in TipRadii, len \in DuctLengths, lip \in LipRadii :
              \A fraction \in {FanThrustFraction(calculate_wake_contraction(DuctedProp(tip, len, lip)))} :
                  /\ RatioOne \div 2 <= fraction
                  /\ fraction <= RatioOne
                  /\ fraction = RatioOne <=> len <= 0
    /\ bemt_pc \in {"search", "finalize", "aggregate"} =>
          /\ RatioOne \div 2 <= bemt_locals.fan_thrust_fraction
          /\ bemt_locals.fan_thrust_fraction <= RatioOne
          /\ bemt_locals.fan_thrust_fraction = RatioOne <=> bemt_args.prop.duct_length <= 0
    /\ (bemt_pc = "done" /\ bemt_result.raised = "none") =>
          /\ bemt_locals.fan_thrust_fraction * 100 > FractionMin
          /\ bemt_result.total_fan_thrust >= 0 =>
                /\ 0 <= bemt_result.total_duct_thrust
                /\ bemt_result.total_duct_thrust <= bemt_result.total_fan_thrust

\* A ducted rotor has returned a result whose duct thrust lies strictly
\* between zero and its fan thrust.
C28_Witness ==
    /\ bemt_pc = "done"
    /\ bemt_result.raised = "none"
    /\ bemt_args.prop.duct_length > 0
    /\ bemt_locals.fan_thrust_fraction < RatioOne
    /\ 0 < bemt_result.total_duct_thrust
    /\ bemt_result.total_duct_thrust < bemt_result.total_fan_thrust

-----------------------------------------------------------------------------
(* The construction of a geometry as a state machine: a caller hands       *)
(* Propeller its arrays, as main_optimizer.py does with the arrays of an   *)
(* optimizer's trial; __init__ runs once for the object and what came of   *)
(* it is kept.                                                             *)

MaxPoints == 2

\* The radii a control point can sit at, and the arrays of up to MaxPoints
\* control points, in any order and with repetitions.
PointRadii == {1000, 2000, 3000}
RadiiArrays == UNION {[1..n -> PointRadii] : n \in 0..MaxPoints}
PitchArrays == {<<>>, <<20>>, <<20, 10>>}
ChordArrays == {<<400>>, <<400, 200>>}
NameArrays == {<<>>, <<"s1223">>, <<"s1223", "e61">>}

ConstructPropeller ==
    /\ geom_call.fn = "none"
    /\ \E r_coords \in RadiiArrays, pitch_coords_deg \in PitchArrays, chord_coords \in ChordArrays,
          r_coords_airfoil_def \in RadiiArrays, airfoil_names \in NameArrays :
          geom_call' = [fn |-> "Propeller",
                        r_coords |-> r_coords,
                        pitch_coords_deg |-> pitch_coords_deg,
                        chord_coords |-> chord_coords,
                        r_coords_airfoil_def |-> r_coords_airfoil_def,
                        airfoil_names |-> airfoil_names,
                        prop |-> Propeller(HubRadius, TipRadius, 2, r_coords, pitch_coords_deg,
                                           chord_coords, r_coords_airfoil_def, airfoil_names, 0, 0)]
    /\ UNCHANGED <<ductVars, lossVars, tableVars, bemtVars, callerVars, elementVars, studyVars>>

InitGeometry ==
    /\ duct_calls = <<>>
    /\ loss_calls = <<>>
    /\ TableIdle
    /\ BemtIdle
    /\ GeometryIdle
    /\ CallersIdle
    /\ ElementIdle
    /\ StudyIdle

NextGeometry == ConstructPropeller

SpecGeometry == InitGeometry /\ [][NextGeometry]_vars

\* len(r_coords) == len(pitch_coords_deg) == len(chord_coords), and the
\* same of the airfoil arrays, read from the arguments of the call.
ShapeLengthsAgree ==
    /\ Len(geom_call.r_coords) = Len(geom_call.pitch_coords_deg)
    /\ Len(geom_call.pitch_coords_deg) = Len(geom_call.chord_coords)
AirfoilLengthsAgree == Len(geom_call.r_coords_airfoil_def) = Len(geom_call.airfoil_names)

\* C19: constructing a Propeller whose shape arrays differ in length, or
\* whose airfoil arrays differ in length, raises ValueError before any
\* attribute is set: no geometry object comes of it.
C19_LengthMismatchRaises ==
    (geom_call.fn = "Propeller" /\ ~(ShapeLengthsAgree /\ AirfoilLengthsAgree)) =>
        /\ geom_call.prop.raised = "ValueError"
        /\ DOMAIN geom_call.prop = {"raised"}

\* A construction with shape arrays of one length and airfoil arrays of
\* two lengths has raised.
C19_Witness ==
    /\ geom_call.fn = "Propeller"
    /\ ShapeLengthsAgree
    /\ Len(geom_call.r_coords) = 2
    /\ ~AirfoilLengthsAgree
    /\ geom_call.prop.raised = "ValueError"

\* The radii of an array are strictly increasing.
StrictlyIncreasing(r) == \A i \in 1..(Len(r) - 1) : r[i] < r[i + 1]

\* C20: constructing a Propeller whose shape radii or airfoil radii are not
\* strictly increasing raises an error; such a geometry is never accepted.
C20_NonMonotonicRadiiRaise ==
    (/\ geom_call.fn = "Propeller"
     /\ ~(StrictlyIncreasing(geom_call.r_coords) /\ StrictlyIncreasing(geom_call.r_coords_airfoil_def)))
        => geom_call.prop.raised # "none"


------------------------------------------------------------------------------
(* Two threads inside the table's functions before the table is built.      *)
(* _load_airfoil_data takes no lock: a thread is at the check of _loaded,   *)
(* at file k of the first loop, at the dict iterator's next step or at the  *)
(* assignment that ends the body of the second loop, and the interpreter    *)
(* may switch threads between any two of these.                             *)

\* The directory both threads read: every polar of it converged.
ConcurrentListings ==
    { FilesOf([a \in FileAirfoils |-> [re \in FileReynolds |-> "full"]], "s1223"),
      FilesOf([a \in FileAirfoils |-> [re \in FileReynolds |-> "full"]], "s1223") \o
          FilesOf([a \in FileAirfoils |-> [re \in FileReynolds |-> "full"]], "E61"),
      <<>> }

\* The iterator of another thread after the entry at idx left the dict.
AfterDelete(caller, idx) ==
    IF caller.pc \in {"next", "install"} /\ caller.i > idx
    THEN [caller EXCEPT !.i = @ - 1] ELSE caller

\* if _loaded: return, and the listing of the directory
EnterLoad(t) ==
    /\ callers[t].pc = "idle"
    /\ callers' = [callers EXCEPT ![t] =
                      IF _loaded \/ csv_files = <<>> THEN [pc |-> "call"]
                      ELSE [pc |-> "first_loop", k |-> 1]]
    /\ load_calls' = IF _loaded THEN load_calls ELSE load_calls + 1
    /\ UNCHANGED <<csv_files, _airfoil_interpolators, _loaded, table_call>>
    /\ UNCHANGED <<ductVars, lossVars, bemtVars, geomVars, elementVars, studyVars>>

\* One turn of the first loop: the file k is read and appended to its entry.
ReadCsv(t) ==
    /\ callers[t].pc = "first_loop"
    /\ _airfoil_interpolators' =
          CollectFiles(<<csv_files[callers[t].k]>>, 1, _airfoil_interpolators)
    /\ callers' = [callers EXCEPT ![t] =
                      IF callers[t].k = Len(csv_files) THEN [pc |-> "iter"]
                      ELSE [pc |-> "first_loop", k |-> callers[t].k + 1]]
    /\ UNCHANGED <<csv_files, _loaded, load_calls, table_call>>
    /\ UNCHANGED <<ductVars, lossVars, bemtVars, geomVars, elementVars, studyVars>>

\* for airfoil_name, data in _airfoil_interpolators.items(): the iterator
\* remembers the size of the dict.
StartSecondLoop(t) ==
    /\ callers[t].pc = "iter"
    /\ callers' = [callers EXCEPT ![t] =
                      [pc |-> "next", i |-> 1, size |-> Len(_airfoil_interpolators)]]
    /\ UNCHANGED <<tableVars, ductVars, lossVars, bemtVars, geomVars, elementVars, studyVars>>

\* The iterator's next step and the body up to its assignment: a dict of
\* another size raises RuntimeError, the end of the dict leads to
\* _loaded = True, a pair of interpolators has no "re_data", and a raw
\* entry is resampled into its valid slices.
IterNext(t) ==
    /\ callers[t].pc = "next"
    /\ IF Len(_airfoil_interpolators) # callers[t].size
       THEN /\ callers' = [callers EXCEPT ![t] = [pc |-> "raised", raised |-> "RuntimeError"]]
            /\ UNCHANGED _loaded
       ELSE IF callers[t].i > Len(_airfoil_interpolators)
       THEN /\ callers' = [callers EXCEPT ![t] = [pc |-> "call"]]
            /\ _loaded' = TRUE
       ELSE IF _airfoil_interpolators[callers[t].i].built
       THEN /\ callers' = [callers EXCEPT ![t] = [pc |-> "raised", raised |-> "TypeError"]]
            /\ UNCHANGED _loaded
       ELSE /\ \E valid \in {ValidSlices(SortByRe(_airfoil_interpolators[callers[t].i].re_data))} :
                  callers' = [callers EXCEPT ![t] =
                                 [pc |-> "install", i |-> callers[t].i + 1,
                                  size |-> callers[t].size,
                                  airfoil_name |-> _airfoil_interpolators[callers[t].i].name,
                                  valid |-> valid]]
            /\ UNCHANGED _loaded
    /\ UNCHANGED <<csv_files, _airfoil_interpolators, load_calls, table_call>>
    /\ UNCHANGED <<ductVars, lossVars, bemtVars, geomVars, elementVars, studyVars>>

\* The end of the body: del _airfoil_interpolators[airfoil_name] for fewer
\* than two slices or an axis RegularGridInterpolator refuses, else the
\* assignment of the pair of interpolators under the key.
Install(t) ==
    /\ callers[t].pc = "install"
    /\ LET name == callers[t].airfoil_name
           valid == callers[t].valid
           back == [pc |-> "next", i |-> callers[t].i, size |-> callers[t].size]
           refused == Len(valid) < 2 \/ ~StrictlyAscending([k \in 1..Len(valid) |-> valid[k].re])
       IN  IF refused /\ ~HasKey(_airfoil_interpolators, name)
           THEN /\ callers' = [callers EXCEPT ![t] = [pc |-> "raised", raised |-> "KeyError"]]
                /\ UNCHANGED _airfoil_interpolators
           ELSE IF refused
           THEN \E idx \in {IndexOf(_airfoil_interpolators, name)} :
                   /\ _airfoil_interpolators' = Delete(_airfoil_interpolators, idx)
                   /\ callers' = [u \in Callers |->
                                     AfterDelete(IF u = t THEN back ELSE callers[u], idx)]
           ELSE IF HasKey(_airfoil_interpolators, name)
           THEN /\ _airfoil_interpolators' =
                      [_airfoil_interpolators EXCEPT
                          ![IndexOf(_airfoil_interpolators, name)] = Interpolators(name, valid)]
                /\ callers' = [callers EXCEPT ![t] = back]
           ELSE /\ _airfoil_interpolators' =
                      Append(_airfoil_interpolators, Interpolators(name, valid))
                /\ callers' = [callers EXCEPT ![t] = back]
    /\ UNCHANGED <<csv_files, _loaded, load_calls, table_call>>
    /\ UNCHANGED <<ductVars, lossVars, bemtVars, geomVars, elementVars, studyVars>>

\* The rest of the public function once _load_airfoil_data has returned:
\* what it read from the dict, and whether the dict held a raw entry then.
ReadTable(t) ==
    /\ callers[t].pc = "call"
    /\ \E partial \in {\E i \in 1..Len(_airfoil_interpolators) : ~_airfoil_interpolators[i].built} :
          \/ callers' = [callers EXCEPT ![t] =
                            [pc |-> "returned", fn |-> "get_available_airfoils",
                             partial |-> partial] @@
                            get_available_airfoils(_airfoil_interpolators)]
          \/ \E airfoil_name \in {"s1223", "E61"} :
                callers' = [callers EXCEPT ![t] =
                               [pc |-> "returned", fn |-> "get_airfoil_properties",
                                partial |-> partial] @@
                               get_airfoil_properties(_airfoil_interpolators, airfoil_name, 15000, 72)]
    /\ UNCHANGED <<tableVars, ductVars, lossVars, bemtVars, geomVars, elementVars, studyVars>>

InitConcurrent ==
    /\ duct_calls = <<>>
    /\ loss_calls = <<>>
    /\ csv_files \in ConcurrentListings
    /\ _airfoil_interpolators = <<>>
    /\ _loaded = FALSE
    /\ load_calls = 0
    /\ table_call = [fn |-> "none"]
    /\ BemtIdle
    /\ GeometryIdle
    /\ CallersIdle
    /\ ElementIdle
    /\ StudyIdle

NextConcurrent ==
    \E t \in Callers :
        \/ EnterLoad(t)
        \/ ReadCsv(t)
        \/ StartSecondLoop(t)
        \/ IterNext(t)
        \/ Install(t)
        \/ ReadTable(t)

SpecConcurrent == InitConcurrent /\ [][NextConcurrent]_vars

\* C23: when two callers invoke a table operation before the table has been
\* built, the body of _load_airfoil_data runs at most once and no caller
\* reads from a table that holds an entry not yet built.
C23_BuildOnceNoPartialRead ==
    /\ load_calls <= 1
    /\ \A t \in Callers : callers[t].pc = "returned" => ~callers[t].partial



------------------------------------------------------------------------------
(* The closure residuals(x) and the finalize step of one element as pure    *)
(* functions of the geometry, the operating condition, the element and the *)
(* state: fsolve may hand residuals any trial state, and the finalize step  *)
(* gets the state fsolve returned or (0, 0).  One evaluation per behaviour. *)

FinalStates == SolvedStates \cup {[v_i |-> 0, a_prime |-> 0]}

CallResiduals ==
    /\ element_call.fn = "none"
    /\ \E prop \in BemtProps, cond \in BemtConditions, num_elements \in 1..MaxElements :
        \E setup \in {Setup(prop, cond[2], num_elements)}, elem \in 1..num_elements,
           x \in TrialPoints \cup {InitialGuess}, answer \in XfoilAnswers :
            /\ element_call' =
                  [fn |-> "residuals", prop |-> prop, v_infinity |-> cond[1],
                   omega |-> setup.omega, r |-> setup.r_centers[elem],
                   v_i |-> x.v_i, a_prime |-> x.a_prime] @@
                  ResidualsLocals(prop, cond[1], AirDensity, setup.omega,
                                  setup.fan_thrust_fraction, setup.r_centers[elem], x, answer)
            /\ UNCHANGED <<ductVars, lossVars, tableVars, bemtVars, geomVars, callerVars, studyVars>>

CallFinalize ==
    /\ element_call.fn = "none"
    /\ \E prop \in BemtProps, cond \in BemtConditions, num_elements \in 1..MaxElements :
        \E setup \in {Setup(prop, cond[2], num_elements)}, elem \in 1..num_elements,
           final \in FinalStates, answer \in XfoilAnswers :
            /\ element_call' =
                  [fn |-> "finalize", prop |-> prop, v_infinity |-> cond[1],
                   omega |-> setup.omega, r |-> setup.r_centers[elem],
                   v_i |-> final.v_i, a_prime |-> final.a_prime] @@
                  ElementLoads(prop, cond[1], AirDensity, setup.omega, setup.dr,
                               setup.r_centers[elem], final.v_i, final.a_prime, answer)
            /\ UNCHANGED <<ductVars, lossVars, tableVars, bemtVars, geomVars, callerVars, studyVars>>

InitElement ==
    /\ duct_calls = <<>>
    /\ loss_calls = <<>>
    /\ TableIdle
    /\ BemtIdle
    /\ GeometryIdle
    /\ CallersIdle
    /\ ElementIdle
    /\ StudyIdle

NextElement == CallResiduals \/ CallFinalize

SpecElement == InitElement /\ [][NextElement]_vars

\* The relative velocity squared and the inflow angle of the state of the
\* last call.
CallWSq ==
    (element_call.v_infinity + element_call.v_i) * (element_call.v_infinity + element_call.v_i)
        + VTangential(element_call.omega, element_call.r, element_call.a_prime)
            * VTangential(element_call.omega, element_call.r, element_call.a_prime)
CallPhi ==
    Arctan2(element_call.v_infinity + element_call.v_i,
            VTangential(element_call.omega, element_call.r, element_call.a_prime))
CallTipLossFactor ==
    prandtl_tip_loss(element_call.prop.num_blades, element_call.r,
                     element_call.prop.tip_radius, CallPhi)
CallHubLossFactor ==
    prandtl_hub_loss(element_call.prop.num_blades, element_call.r,
                     element_call.prop.hub_radius, CallPhi)

\* The last call was residuals(x) and it returned its two residuals.
ResidualsReturned == element_call.fn = "residuals" /\ element_call.out = "residual"

C26_BranchSelectsFormula ==
    (ResidualsReturned /\ element_call.v_infinity > 100) =>
        /\ element_call.branch = (IF element_call.a_eff > AThreshold THEN "hover" ELSE "forward")
        /\ element_call.branch = "hover" =>
              element_call.dT_total_mom_dr =
                  MomentumPerSpan(element_call.r, AirDensity, element_call.v_i,
                                  element_call.v_i, element_call.F)
        /\ element_call.branch = "forward" =>
              element_call.dT_total_mom_dr =
                  MomentumPerSpan(element_call.r, AirDensity,
                                  element_call.v_infinity + element_call.v_i,
                                  element_call.v_i, element_call.F)

\* C27: residuals(x) for a trial state with W^2 < 1e-4 returns (1.0, 1.0)
\* with no airfoil lookup and no division, and the finalize step for a
\* final state with W^2 < 1e-6 gives dT = dQ = 0 with no airfoil lookup.
C27_SlowStateShortCircuits ==
    /\ (element_call.fn = "residuals" /\ CallWSq < 100) =>
          /\ element_call.ret = <<ResidualOne, ResidualOne>>
          /\ element_call.looked_up = "none"
          /\ ~element_call.divided
    /\ (element_call.fn = "finalize" /\ CallWSq < 1) =>
          /\ element_call.raised = "none"
          /\ element_call.dT = 0
          /\ element_call.dQ = 0
          /\ element_call.looked_up = "none"

\* The finalize step has run for a state at rest of a rotor that carries
\* the attribute airfoil_name.
C27_Witness ==
    /\ element_call.fn = "finalize"
    /\ CallWSq < 1
    /\ HasAirfoilName(element_call.prop)
    /\ element_call.dT = 0
    /\ element_call.looked_up = "none"


------------------------------------------------------------------------------
(* main_optimizer.py: the objective evaluate_design and the check of the    *)
(* best trial.  Thrust counts 1e-6 N and power 1e-6 W.  What solve_bemt     *)
(* hands back for a candidate is drawn: a pair of total thrust and power    *)
(* around the two limits, or the exception it raises; study.optimize does   *)
(* not catch an exception of the objective, so the run ends with it.        *)

MaxTrials == 3

TARGET_POWER_LIMIT == 3260000
TARGET_THRUST_MIN == 196000

CandidateThrusts == {0, 195999, 196000, 250000}
CandidatePowers == {3000000, 3260000, 3260001, 4000000}

\* A slip that scores a candidate over the ceiling by its thrust.
evaluate_design_no_ceiling(total_T, P) == total_T

\* Lines 129-135 of evaluate_design: the value of a candidate whose
\* solve_bemt returned total_T and P.
evaluate_design(total_T, P) ==
    IF P > TARGET_POWER_LIMIT THEN TARGET_THRUST_MIN - (P - TARGET_POWER_LIMIT)
    ELSE IF total_T < TARGET_THRUST_MIN THEN total_T
    ELSE total_T

\* The candidate meets both constraints.
Feasible(total_T, P) == P <= TARGET_POWER_LIMIT /\ total_T >= TARGET_THRUST_MIN

\* study.optimize(evaluate_design, n_trials) has been called.
StartStudy ==
    /\ study.pc = "none"
    /\ study' = [pc |-> "optimizing", trials |-> <<>>, report |-> "none"]
    /\ UNCHANGED <<ductVars, lossVars, tableVars, bemtVars, geomVars, callerVars, elementVars>>

\* One trial: evaluate_design returns the candidate's value, or solve_bemt
\* raises and the exception leaves study.optimize.
RunTrial ==
    /\ study.pc = "optimizing"
    /\ Len(study.trials) < MaxTrials
    /\ \/ \E total_T \in CandidateThrusts, P \in CandidatePowers :
             study' = [study EXCEPT !.trials =
                          Append(@, [total_T |-> total_T, P |-> P,
                                     value |-> evaluate_design(total_T, P)])]
       \/ study' = [study EXCEPT !.pc = "raised", !.report = "AttributeError"]
    /\ UNCHANGED <<ductVars, lossVars, tableVars, bemtVars, geomVars, callerVars, elementVars>>

\* study.best_trial.value of a study that maximizes
BestValue(trials) ==
    CHOOSE v \in {trials[i].value : i \in 1..Len(trials)} :
        \A i \in 1..Len(trials) : trials[i].value <= v

\* Lines 170-175: the check of the best trial after the last trial.
CheckBestTrial ==
    /\ study.pc = "optimizing"
    /\ Len(study.trials) = MaxTrials
    /\ study' = [study EXCEPT
                    !.pc = "done",
                    !.report = IF BestValue(study.trials) < TARGET_THRUST_MIN
                               THEN "failed" ELSE "best solution found"]
    /\ UNCHANGED <<ductVars, lossVars, tableVars, bemtVars, geomVars, callerVars, elementVars>>

InitSearch ==
    /\ duct_calls = <<>>
    /\ loss_calls = <<>>
    /\ TableIdle
    /\ BemtIdle
    /\ GeometryIdle
    /\ CallersIdle
    /\ ElementIdle
    /\ StudyIdle

NextSearch == StartStudy \/ RunTrial \/ CheckBestTrial

SpecSearch == InitSearch /\ [][NextSearch]_vars

\* A candidate of the study met both constraints.
FeasibleFound ==
    \E i \in 1..Len(study.trials) : Feasible(study.trials[i].total_T, study.trials[i].P)

\* Every trial of the study so far: its value is at least TARGET_THRUST_MIN
\* exactly for a feasible candidate, and below it for a candidate over the
\* power ceiling; and the check, when it runs, reports failure exactly for
\* a study without a feasible candidate.
ObjectiveSeparates ==
    study.pc # "none" =>
        /\ \A i \in 1..Len(study.trials) :
              /\ study.trials[i].value >= TARGET_THRUST_MIN
                    <=> Feasible(study.trials[i].total_T, study.trials[i].P)
              /\ study.trials[i].P > TARGET_POWER_LIMIT
                    => study.trials[i].value < TARGET_THRUST_MIN
        /\ study.pc = "done" => (study.report = "failed" <=> ~FeasibleFound)

\* C30: evaluate_design returns a value >= TARGET_THRUST_MIN exactly for a
\* candidate with power <= TARGET_POWER_LIMIT and thrust >= TARGET_THRUST_MIN,
\* a candidate over the power ceiling scores below TARGET_THRUST_MIN, and a
\* run that found no feasible candidate ends with the report of failure.
C30_FailureIffNoFeasible ==
    /\ ObjectiveSeparates
    /\ (study.pc \in {"done", "raised"} /\ ~FeasibleFound) => study.report = "failed"

====
